---------------------------- MODULE Spec2Model ----------------------------
(***************************************************************************)
(* TDL-to-motion-plan compiler of the NLTDL repository: the command        *)
(* planner (tdl_motion_planner.py), the trajectory synthesizer             *)
(* (trajectory_planner.py), pose parsing and unit conversion               *)
(* (ik_solver.py) and the line parser (tdl_parser.py).                     *)
(*                                                                         *)
(* Numbers.  Python floats are modelled as fixed-point integers:           *)
(*   angles in radians   : micro-radians  (pi = PiMicro)                   *)
(*   lengths in metres   : 1/MetreScale m                                  *)
(*   durations in seconds: milliseconds                                    *)
(* The interpolation formula s + alpha * (g - s) rounds each of its        *)
(* results as float arithmetic does, to the nearest number of              *)
(* SignificandBits significant bits, ties to even (fl).                    *)
(* TDL literals keep their own units (millimetres, degrees).               *)
(*                                                                         *)
(* Strings.  A pose string is modelled by the three things the code reads  *)
(* of it: head (the text up to and including the first "(", or the whole   *)
(* text when there is none), body (the pieces str.split(',') yields of the *)
(* text between the first "(" and the first ")") and closed (whether a     *)
(* ")" follows).                                                           *)
(***************************************************************************)
EXTENDS Integers, Sequences, FiniteSets, TLC

VARIABLES
    (* ---- one planning pass: TDLMotionPlanner.plan_tdl_program ---- *)
    tdl_program,      \* the Program: [goals, definitions]
    check_collisions, \* TrajectoryPlanner.check_collisions
    joint_limits,     \* TrajectoryPlanner.joint_limits
    obstacle_from,    \* the provider's world: joint 2 or 5 at or beyond this angle hits link 3
    sim_joints,       \* the simulator's joint state (p.resetJointState writes it)
    current_joints,   \* TDLMotionPlanner.current_joints, the cursor
    motion_plan,      \* the MotionPlan under construction
    trajectories,     \* _plan_goal's local list
    gi,               \* index of the Goal being planned (1-based)
    ci,               \* index of the next command of that Goal (1-based)
    pc,               \* a pass: "idle", "planning", "done" (returned), "raised" (exception
                      \* left the pass); a single call: "idle", "returned"; the parser:
                      \* "parsing", "parsed"
    (* ---- observation of the pass (no effect on it) ---- *)
    last_call,        \* what the last planned command did: outcome and provider calls
    synth_log,        \* every synthesizer call of the pass: [fn, start, expected, ok]
    last_end,         \* final waypoint of the most recent trajectory a synthesizer returned
    attempts,         \* per Goal, the outcome of each command handed to _plan_command
    earlier,          \* what the earlier passes on this planner returned, oldest first
    (* ---- one call of a single operation ---- *)
    request,          \* the operation called and its arguments
    (* ---- one run of the line parser: TDLParser.parse ---- *)
    text,             \* the lines of the TDL text
    line_no,          \* the index of the line parse looks at (1-based)
    current_goal      \* parse's current_goal: index into the Program's goals, 0 for None

-----------------------------------------------------------------------------
(* Program constants *)

DOF == 6
DefaultVelocity == 100
DefaultAcceleration == 50
PiMicro == 3141592
MetreScale == 10000

(* Bounds of the model *)

NumWaypoints == 4     \* samples of a trajectory (the planner passes num_waypoints=50)
MaxCommands == 3      \* commands of a Program, all Goals together
MaxGoals == 2         \* Goals of a Program
Reach == 3141         \* the provider's workspace: |x|,|y|,|z| <= Reach (1/MetreScale m)
MaxComponents == 7    \* components of a pose literal
MaxLines == 4         \* lines of a TDL text
SignificandBits == 22 \* significant bits of a float (53 in the code's doubles)

-----------------------------------------------------------------------------
(* Helpers *)

Min(a, b) == IF a <= b THEN a ELSE b
Max(a, b) == IF a >= b THEN a ELSE b
Abs(a) == IF a < 0 THEN -a ELSE a

RECURSIVE SumSeq(_)
SumSeq(s) == IF s = <<>> THEN 0 ELSE Head(s) + SumSeq(Tail(s))

RECURSIVE MaxSeq(_)
MaxSeq(s) == IF Len(s) = 1 THEN s[1] ELSE Max(s[1], MaxSeq(Tail(s)))

RECURSIVE SqrtBetween(_, _, _)
SqrtBetween(x, lo, hi) ==
    IF lo >= hi THEN lo
    ELSE LET mid == (lo + hi + 1) \div 2
         IN  IF mid * mid <= x THEN SqrtBetween(x, mid, hi)
                               ELSE SqrtBetween(x, lo, mid - 1)

\* floor of the square root of x >= 0 (math.sqrt, rounded down to the grid)
Sqrt(x) == SqrtBetween(x, 0, Min(x, 46340))

\* the number of binary digits of n >= 0
RECURSIVE BitLen(_)
BitLen(n) == IF n = 0 THEN 0 ELSE 1 + BitLen(n \div 2)

\* the result of a float operation whose exact value is x: the nearest number of
\* SignificandBits significant bits, ties to the even significand
fl(x) ==
    LET n == Abs(x)
        q == 2 ^ Max(0, BitLen(n) - SignificandBits)
        lo == (n \div q) * q
        nearest == IF 2 * (n - lo) < q THEN lo
                   ELSE IF 2 * (n - lo) > q THEN lo + q
                   ELSE IF (n \div q) % 2 = 0 THEN lo ELSE lo + q
    IN  IF x < 0 THEN -nearest ELSE nearest

None == [type |-> "None"]
Raise == [type |-> "Raise"]

-----------------------------------------------------------------------------
(* Strings and numbers in TDL text *)

Text(head, body, closed) == [head |-> head, body |-> body, closed |-> closed]
Word(w) == Text(w, <<>>, FALSE)
PosX(body) == Text("PosX(", body, TRUE)
PosJ(body) == Text("PosJ(", body, TRUE)

\* float(c.strip()): the value of a component, for the components the model writes
FloatTable ==
    [t \in {"0", "45", "90", "-90", "150", "200", "300", "250", "50", "100", "900"} |->
        CASE t = "0" -> 0     [] t = "45" -> 45   [] t = "90" -> 90
          [] t = "-90" -> -90 [] t = "150" -> 150 [] t = "200" -> 200
          [] t = "300" -> 300 [] t = "250" -> 250 [] t = "50" -> 50
          [] t = "100" -> 100 [] t = "900" -> 900]

IsFloat(t) == t \in DOMAIN FloatTable

SubSeqTo(s, a, b) == SubSeq(s, a, Min(b, Len(s)))

\* ik_solver.parse_tdl_pose; float() raises ValueError on a piece that is no number,
\* the single empty piece of "PosX()" included (an empty body here)
parse_tdl_pose(pose_str) ==
    IF pose_str.head = "PosX(" THEN
        IF pose_str.closed THEN
            IF pose_str.body = <<>> \/ \E k \in 1..Len(pose_str.body) : ~IsFloat(pose_str.body[k]) THEN Raise
            ELSE LET coords == [k \in 1..Len(pose_str.body) |-> FloatTable[pose_str.body[k]]]
                 IN  [type |-> "cartesian",
                      position |-> SubSeqTo(coords, 1, 3),
                      orientation |-> IF Len(coords) >= 6 THEN SubSeq(coords, 4, 6)
                                                          ELSE <<0, 0, 0>>]
        ELSE None
    ELSE IF pose_str.head = "PosJ(" THEN
        IF pose_str.closed THEN
            IF pose_str.body = <<>> \/ \E k \in 1..Len(pose_str.body) : ~IsFloat(pose_str.body[k]) THEN Raise
            ELSE [type |-> "joint",
                  joints |-> [k \in 1..Len(pose_str.body) |-> FloatTable[pose_str.body[k]]]]
        ELSE None
    ELSE None

\* math.radians, degrees to micro-radians
radians(deg) == (deg * PiMicro) \div 180

\* p / 1000.0, millimetres to 1/MetreScale metres
metres(mm) == (mm * MetreScale) \div 1000

\* convert_tdl_to_meters, were the orientation of a Cartesian pose left in degrees
ConvertPositionOnly(pose_dict) ==
    IF pose_dict.type = "cartesian" THEN
        [type |-> "cartesian",
         position |-> [k \in 1..Len(pose_dict.position) |-> metres(pose_dict.position[k])],
         orientation |-> pose_dict.orientation]
    ELSE IF pose_dict.type = "joint" THEN
        [type |-> "joint",
         joints |-> [k \in 1..Len(pose_dict.joints) |-> radians(pose_dict.joints[k])]]
    ELSE pose_dict

\* ik_solver.convert_tdl_to_meters
convert_tdl_to_meters(pose_dict) ==
    IF pose_dict.type = "cartesian" THEN
        [type |-> "cartesian",
         position |-> [k \in 1..Len(pose_dict.position) |-> metres(pose_dict.position[k])],
         orientation |-> [k \in 1..Len(pose_dict.orientation) |->
                             radians(pose_dict.orientation[k])]]
    ELSE IF pose_dict.type = "joint" THEN
        [type |-> "joint",
         joints |-> [k \in 1..Len(pose_dict.joints) |-> radians(pose_dict.joints[k])]]
    ELSE pose_dict

-----------------------------------------------------------------------------
(* The Kinematics Provider: a deterministic stand-in for the simulator.     *)
(* The arm's end effector sits at (j1, j2, j3)/1000 with Euler angles       *)
(* (j4, j5, j6); targets beyond Reach have no inverse-kinematics solution;  *)
(* the base always rests on the ground, links 1 and 2 always touch, and     *)
(* link 0 hits link 3 once joint 2 or joint 5 reaches obstacle_from.        *)

\* p.resetJointState over joint_indices, guarded by "if i < len(joints)"
ResetJointState(sim, joints) ==
    [k \in 1..DOF |-> IF k <= Len(joints) THEN joints[k] ELSE sim[k]]

\* p.getContactPoints(bodyA=robot_id): (link_a, link_b) of every contact
getContactPoints(sim) ==
    <<  <<-1, -1>>, <<1, 2>>  >> \o
    (IF sim[2] >= obstacle_from \/ sim[5] >= obstacle_from THEN << <<0, 3>> >> ELSE <<>>)

\* IKSolver.forward_kinematics, on the simulator state it has just set
forward_kinematics(sim) ==
    [position |-> <<sim[1] \div 1000, sim[2] \div 1000, sim[3] \div 1000>>,
     euler |-> <<sim[4], sim[5], sim[6]>>]

\* IKSolver.solve_ik_from_euler, on the target alone: a solution, None or Raise
solve_ik_from_euler(target_pos, target_euler) ==
    IF Len(target_pos) # 3 \/ Len(target_euler) # 3 THEN Raise
    ELSE IF \E k \in 1..3 : Abs(target_pos[k]) > Reach THEN None
    ELSE [type |-> "solution",
          joints |-> <<target_pos[1] * 1000, target_pos[2] * 1000, target_pos[3] * 1000,
                       target_euler[1], target_euler[2], target_euler[3]>>]

\* "if current_joints:" then resetJointState: the simulator state after seeding
SeedSim(sim, seed) == IF seed # <<>> THEN ResetJointState(sim, seed) ELSE sim

-----------------------------------------------------------------------------
(* trajectory_planner.TrajectoryPlanner *)

\* TrajectoryPlanner._interpolate_joint_path
_interpolate_joint_path(start, goal, num_points) ==
    [i \in 1..num_points |->
        [k \in 1..Min(Len(start), Len(goal)) |->
            IF num_points > 1
            THEN fl(start[k] + fl(((i - 1) * fl(goal[k] - start[k])) \div (num_points - 1)))
            ELSE fl(start[k] + fl(goal[k] - start[k]))]]

\* TrajectoryPlanner._interpolate_cartesian_path
_interpolate_cartesian_path(start, goal, num_points) ==
    [i \in 1..num_points |->
        [k \in 1..Min(Len(start), Len(goal)) |->
            IF num_points > 1
            THEN fl(start[k] + fl(((i - 1) * fl(goal[k] - start[k])) \div (num_points - 1)))
            ELSE fl(start[k] + fl(goal[k] - start[k]))]]

\* TrajectoryPlanner._check_joint_limits
_check_joint_limits(joints) ==
    \A k \in 1..Min(Len(joints), Len(joint_limits)) :
        ~(joints[k] < joint_limits[k][1] \/ joints[k] > joint_limits[k][2])

\* ContactCollides, were touching neighbours to count
ContactCollidesAdjacent(contact) ==
    /\ ~(contact[1] = -1 \/ contact[2] = -1)
    /\ ~(Abs(contact[1] - contact[2]) < 1)

\* the contact filter of TrajectoryPlanner._is_in_collision (lines 235-245)
ContactCollides(contact) ==
    /\ ~(contact[1] = -1 \/ contact[2] = -1)
    /\ ~(Abs(contact[1] - contact[2]) <= 1)

\* the loop over the contacts of _is_in_collision (lines 232-247)
Collides(contact_points) ==
    \E c \in 1..Len(contact_points) : ContactCollides(contact_points[c])

\* TrajectoryPlanner._is_in_collision, from the simulator state sim
_is_in_collision(sim, joints) ==
    Collides(getContactPoints(ResetJointState(sim, joints)))

\* _calculate_duration, were the profile trapezoidal whatever the distance
AlwaysTrapezoidal(distance, velocity, acceleration) ==
    IF acceleration = 0 \/ velocity = 0 THEN [raise |-> TRUE, value |-> 0]
    ELSE [raise |-> FALSE,
          value |-> (2000 * velocity) \div acceleration
                    + (distance - (1000 * velocity * velocity) \div acceleration)
                      \div velocity]

\* TrajectoryPlanner._calculate_duration: distance in 1/1000 units, velocity >= 0,
\* acceleration >= 0; the result in milliseconds, or raise (ZeroDivisionError)
_calculate_duration(distance, velocity, acceleration) ==
    IF acceleration = 0 THEN [raise |-> TRUE, value |-> 0]
    ELSE IF 1000 * velocity * velocity < distance * acceleration THEN
        IF velocity = 0 THEN [raise |-> TRUE, value |-> 0]
        ELSE [raise |-> FALSE,
              value |-> (2000 * velocity) \div acceleration
                        + (distance - (1000 * velocity * velocity) \div acceleration)
                          \div velocity]
    ELSE [raise |-> FALSE, value |-> 2 * Sqrt((1000 * distance) \div acceleration)]

\* the smallest member of a set of positive indices, 0 when there is none
FirstIndex(S) == IF S = {} THEN 0 ELSE CHOOSE i \in S : \A j \in S : i <= j

\* what the collision loop of plan_joint_trajectory leaves when its first waypoint in
\* collision is number first (0: none): the queries made, in order, and the simulator
JointCollisionUpTo(waypoints, sim, first) ==
    [hit |-> first # 0,
     calls |-> [i \in 1..(IF first = 0 THEN Len(waypoints) ELSE first) |->
                   [op |-> "collision", index |-> i - 1, joints |-> waypoints[i]]],
     sim |-> IF waypoints = <<>> THEN sim
             ELSE ResetJointState(sim, waypoints[IF first = 0 THEN Len(waypoints)
                                                               ELSE first])]

\* JointCollisionLoop, were every waypoint asked before the answer is given
JointCollisionAll(waypoints, sim) ==
    [hit |-> \E i \in 1..Len(waypoints) : _is_in_collision(sim, waypoints[i]),
     calls |-> [i \in 1..Len(waypoints) |->
                   [op |-> "collision", index |-> i - 1, joints |-> waypoints[i]]],
     sim |-> IF waypoints = <<>> THEN sim
             ELSE ResetJointState(sim, waypoints[Len(waypoints)])]

\* the collision loop of plan_joint_trajectory (lines 73-76): the waypoints are asked
\* in index order up to the first one in collision.  Every waypoint has the same
\* length, so each query overwrites the same joints of the simulator.
JointCollisionLoop(waypoints, sim) ==
    JointCollisionUpTo(waypoints, sim,
        FirstIndex({i \in 1..Len(waypoints) : _is_in_collision(sim, waypoints[i])}))

\* plan_joint_trajectory, lines 78-80: max(abs(g - s) ...) and the duration
JointTiming(start_joints, goal_joints, velocity, acceleration) ==
    IF Min(Len(goal_joints), Len(start_joints)) = 0
    THEN [raise |-> TRUE, value |-> 0]       \* max() of an empty sequence
    ELSE _calculate_duration(
             MaxSeq([k \in 1..Min(Len(goal_joints), Len(start_joints)) |->
                        Abs(goal_joints[k] - start_joints[k])]) \div 1000,
             velocity, acceleration)

\* plan_joint_trajectory, lines 75-87, given what the collision loop found
JointReturn(waypoints, checked, duration) ==
    IF checked.hit THEN [ret |-> None, calls |-> checked.calls, sim |-> checked.sim]
    ELSE IF duration.raise
    THEN [ret |-> Raise, calls |-> checked.calls, sim |-> checked.sim]
    ELSE [ret |-> [waypoints |-> waypoints,
                   duration |-> duration.value,
                   num_waypoints |-> Len(waypoints),
                   type |-> "joint"],
          calls |-> checked.calls, sim |-> checked.sim]

\* plan_joint_trajectory, lines 71-87, over the interpolated waypoints
JointOver(sim, start_joints, goal_joints, velocity, acceleration, waypoints) ==
    JointReturn(waypoints,
                IF check_collisions
                THEN JointCollisionLoop(waypoints, sim)
                ELSE [hit |-> FALSE, calls |-> <<>>, sim |-> sim],
                JointTiming(start_joints, goal_joints, velocity, acceleration))

\* TrajectoryPlanner.plan_joint_trajectory: [ret, calls, sim]
plan_joint_trajectory(sim, start_joints, goal_joints, velocity, acceleration, num_waypoints) ==
    IF ~_check_joint_limits(goal_joints) THEN [ret |-> None, calls |-> <<>>, sim |-> sim]
    ELSE JointOver(sim, start_joints, goal_joints, velocity, acceleration,
                   _interpolate_joint_path(start_joints, goal_joints, num_waypoints))

\* the body of the sample loop of plan_linear_trajectory (lines 139-151) for one
\* sample, given the solution inverse kinematics returned: "raise", "none" (return
\* None) or "ok", and whether the collision predicate was asked
SampleStep(sim, joint_solution) ==
    IF joint_solution = Raise THEN [status |-> "raise", collision_asked |-> FALSE]
    ELSE IF joint_solution = None THEN [status |-> "none", collision_asked |-> FALSE]
    ELSE IF ~_check_joint_limits(joint_solution.joints)
    THEN [status |-> "none", collision_asked |-> FALSE]
    ELSE IF check_collisions /\ _is_in_collision(sim, joint_solution.joints)
    THEN [status |-> "none", collision_asked |-> TRUE]
    ELSE [status |-> "ok", collision_asked |-> check_collisions]

\* LinearUpTo, were every sample seeded with the start configuration
LinearUpToSeededAtStart(cartesian_waypoints, orientation_waypoints, start_joints, sim, solutions, steps, first) ==
    LET n == Len(solutions)
        taken == IF first = 0 THEN n ELSE first
        c == IF check_collisions THEN 1 ELSE 0
        seed(i) == start_joints
        ik(i) == [op |-> "ik", index |-> i - 1, seed |-> seed(i),
                  pos |-> cartesian_waypoints[i], orn |-> orientation_waypoints[i]]
        collision(i) == [op |-> "collision", index |-> i - 1,
                         joints |-> solutions[i].joints]
        callsOf(i) == IF steps[i].collision_asked THEN <<ik(i), collision(i)>>
                                                  ELSE <<ik(i)>>
        \* every sample before the last taken one ended "ok" and made 1 + c calls
        total == IF taken = 0 THEN 0
                 ELSE (taken - 1) * (1 + c) + (IF steps[taken].collision_asked THEN 2 ELSE 1)
    IN  [status |-> IF first = 0 THEN "ok" ELSE steps[first].status,
         waypoints |-> [i \in 1..(IF first = 0 THEN n ELSE first - 1) |->
                           solutions[i].joints],
         calls |-> [j \in 1..total |->
                       callsOf(((j - 1) \div (1 + c)) + 1)[((j - 1) % (1 + c)) + 1]],
         sim |-> IF taken = 0 THEN sim
                 ELSE IF steps[taken].collision_asked
                 THEN ResetJointState(sim, solutions[taken].joints)
                 ELSE SeedSim(sim, seed(taken))]

\* what the sample loop leaves when the first sample that does not end "ok" is number
\* first (0: none).  Sample 1 is seeded with start_joints, sample i > 1 with the
\* solution of sample i - 1 (line 154).
LinearUpTo(cartesian_waypoints, orientation_waypoints, start_joints, sim, solutions, steps, first) ==
    LET n == Len(solutions)
        taken == IF first = 0 THEN n ELSE first
        c == IF check_collisions THEN 1 ELSE 0
        seed(i) == IF i = 1 THEN start_joints ELSE solutions[i - 1].joints
        ik(i) == [op |-> "ik", index |-> i - 1, seed |-> seed(i),
                  pos |-> cartesian_waypoints[i], orn |-> orientation_waypoints[i]]
        collision(i) == [op |-> "collision", index |-> i - 1,
                         joints |-> solutions[i].joints]
        callsOf(i) == IF steps[i].collision_asked THEN <<ik(i), collision(i)>>
                                                  ELSE <<ik(i)>>
        \* every sample before the last taken one ended "ok" and made 1 + c calls
        total == IF taken = 0 THEN 0
                 ELSE (taken - 1) * (1 + c) + (IF steps[taken].collision_asked THEN 2 ELSE 1)
    IN  [status |-> IF first = 0 THEN "ok" ELSE steps[first].status,
         waypoints |-> [i \in 1..(IF first = 0 THEN n ELSE first - 1) |->
                           solutions[i].joints],
         calls |-> [j \in 1..total |->
                       callsOf(((j - 1) \div (1 + c)) + 1)[((j - 1) % (1 + c)) + 1]],
         sim |-> IF taken = 0 THEN sim
                 ELSE IF steps[taken].collision_asked
                 THEN ResetJointState(sim, solutions[taken].joints)
                 ELSE SeedSim(sim, seed(taken))]

\* the sample loop, given the solution of every sample and how its body ends
LinearStepped(cartesian_waypoints, orientation_waypoints, start_joints, sim, solutions, steps) ==
    LinearUpTo(cartesian_waypoints, orientation_waypoints, start_joints, sim,
               solutions, steps,
               FirstIndex({i \in 1..Len(steps) : steps[i].status # "ok"}))

\* the sample loop, given the solution of every sample
LinearSolved(cartesian_waypoints, orientation_waypoints, start_joints, sim, solutions) ==
    LinearStepped(cartesian_waypoints, orientation_waypoints, start_joints, sim,
                  solutions,
                  [i \in 1..Len(solutions) |-> SampleStep(sim, solutions[i])])

\* the sample loop of plan_linear_trajectory (lines 128-154): the samples are taken in
\* index order up to the first that does not end "ok".  A solution sets every joint of
\* the simulator, so a collision query depends on the solution alone.
LinearLoop(cartesian_waypoints, orientation_waypoints, start_joints, sim) ==
    LinearSolved(cartesian_waypoints, orientation_waypoints, start_joints, sim,
        [i \in 1..Min(Len(cartesian_waypoints), Len(orientation_waypoints)) |->
            solve_ik_from_euler(cartesian_waypoints[i], orientation_waypoints[i])])

\* plan_linear_trajectory, lines 156-158: the Cartesian distance and the duration
LinearTiming(start_pos, goal_pos, velocity, acceleration) ==
    IF Len(goal_pos) # 3 THEN [raise |-> TRUE, value |-> 0]
    ELSE _calculate_duration(
             Sqrt(SumSeq([k \in 1..3 |-> (goal_pos[k] - start_pos[k])
                                         * (goal_pos[k] - start_pos[k])]))
             * (1000000 \div MetreScale),
             velocity, acceleration)

\* plan_linear_trajectory, lines 139-166, given what the sample loop found
LinearReturn(start_joints, cartesian_waypoints, loop, duration) ==
    IF loop.status = "raise"
    THEN [ret |-> Raise, sim |-> loop.sim,
          calls |-> << [op |-> "fk", joints |-> start_joints] >> \o loop.calls]
    ELSE IF loop.status = "none"
    THEN [ret |-> None, sim |-> loop.sim,
          calls |-> << [op |-> "fk", joints |-> start_joints] >> \o loop.calls]
    ELSE IF duration.raise
    THEN [ret |-> Raise, sim |-> loop.sim,
          calls |-> << [op |-> "fk", joints |-> start_joints] >> \o loop.calls]
    ELSE [ret |-> [waypoints |-> loop.waypoints,
                   duration |-> duration.value,
                   num_waypoints |-> Len(loop.waypoints),
                   type |-> "linear",
                   cartesian_path |-> cartesian_waypoints],
          sim |-> loop.sim,
          calls |-> << [op |-> "fk", joints |-> start_joints] >> \o loop.calls]

\* plan_linear_trajectory, lines 127-166, over the interpolated poses
LinearOver(sim, start_joints, start_pos, goal_pos, velocity, acceleration, cartesian_waypoints, orientation_waypoints) ==
    LinearReturn(start_joints, cartesian_waypoints,
                 LinearLoop(cartesian_waypoints, orientation_waypoints, start_joints, sim),
                 LinearTiming(start_pos, goal_pos, velocity, acceleration))

\* plan_linear_trajectory, lines 117-166, from the start pose fk
LinearFrom(sim, start_joints, fk, goal_pos, goal_orn, velocity, acceleration, num_waypoints) ==
    LinearOver(sim, start_joints, fk.position, goal_pos, velocity, acceleration,
               _interpolate_cartesian_path(fk.position, goal_pos, num_waypoints),
               _interpolate_cartesian_path(fk.euler, goal_orn, num_waypoints))

\* TrajectoryPlanner.plan_linear_trajectory: [ret, calls, sim]
plan_linear_trajectory(sim, start_joints, goal_pos, goal_orn, velocity, acceleration, num_waypoints) ==
    LinearFrom(ResetJointState(sim, start_joints), start_joints,
               forward_kinematics(ResetJointState(sim, start_joints)),
               goal_pos, goal_orn, velocity, acceleration, num_waypoints)

-----------------------------------------------------------------------------
(* tdl_motion_planner.TDLMotionPlanner: the planning of one command.        *)
(* Each operator yields [ret, calls, sim, synth]: what the method returns   *)
(* (a record, None, or Raise when an exception leaves it), the provider     *)
(* calls it made, the simulator state it leaves, and the synthesizer calls  *)
(* it made, [fn, start, ok].                                                *)

\* dict.get(key, default)
Get(args, key, default) == IF key \in DOMAIN args THEN args[key] ELSE default

\* TDLMotionPlanner._resolve_pose
_resolve_pose(pose_str) ==
    IF pose_str.body = <<>> /\ ~pose_str.closed
       /\ pose_str.head \in DOMAIN tdl_program.definitions
    THEN tdl_program.definitions[pose_str.head]
    ELSE pose_str

IsTrajectory(ret) == ret # None /\ ret # Raise

\* "if trajectory: trajectory['command'] = ...; trajectory['target_pose'] = ..."
Tagged(ret, command, target_pose_str) ==
    IF IsTrajectory(ret)
    THEN [f \in DOMAIN ret \cup {"command", "target_pose"} |->
            IF f = "command" THEN command
            ELSE IF f = "target_pose" THEN target_pose_str
            ELSE ret[f]]
    ELSE ret

Returned(ret, calls, sim) == [ret |-> ret, calls |-> calls, sim |-> sim, synth |-> <<>>]

\* _plan_move_joint, lines 225-238, given what plan_joint_trajectory returned
MoveJointPlanned(target_pose_str, calls, planned) ==
    [ret |-> Tagged(planned.ret, "MoveJoint", target_pose_str),
     calls |-> calls \o planned.calls,
     sim |-> planned.sim,
     synth |-> << [fn |-> "plan_joint_trajectory", start |-> current_joints,
                   ok |-> IsTrajectory(planned.ret)] >>]

\* _plan_move_joint, lines 219-238, given the goal joints it determined
MoveJointGoal(args, target_pose_str, goal) ==
    IF goal.ret = Raise \/ goal.ret = None THEN goal
    ELSE MoveJointPlanned(target_pose_str, goal.calls,
             plan_joint_trajectory(goal.sim, current_joints, goal.ret.joints,
                                   Get(args, "velocity", DefaultVelocity),
                                   Get(args, "acceleration", DefaultAcceleration),
                                   NumWaypoints))

\* GoalFromIK, were the inverse-kinematics call seeded with the zero configuration
GoalFromUnseededIK(sim, pose_converted, solved) ==
    Returned(solved,
             << [op |-> "ik", index |-> 0, seed |-> [k \in 1..DOF |-> 0],
                 pos |-> pose_converted.position,
                 orn |-> pose_converted.orientation] >>,
             SeedSim(sim, [k \in 1..DOF |-> 0]))

\* _plan_move_joint, lines 211-221: the goal joints of a Cartesian pose, given what
\* solve_ik_from_euler returned for it, seeded with the cursor
GoalFromIK(sim, pose_converted, solved) ==
    Returned(solved,
             << [op |-> "ik", index |-> 0, seed |-> current_joints,
                 pos |-> pose_converted.position,
                 orn |-> pose_converted.orientation] >>,
             SeedSim(sim, current_joints))

\* _plan_move_joint, lines 207-223: "Determine goal joints"
DetermineGoal(sim, pose_converted) ==
    IF pose_converted.type = "joint"
    THEN Returned([type |-> "solution", joints |-> pose_converted.joints], <<>>, sim)
    ELSE IF pose_converted.type = "cartesian"
    THEN GoalFromIK(sim, pose_converted,
                    solve_ik_from_euler(pose_converted.position,
                                        pose_converted.orientation))
    ELSE Returned(None, <<>>, sim)

\* _plan_move_joint, lines 199-238, given what parse_tdl_pose returned
MoveJointParsed(args, sim, target_pose_str, pose_dict) ==
    IF pose_dict = Raise THEN Returned(Raise, <<>>, sim)
    ELSE IF pose_dict = None THEN Returned(None, <<>>, sim)
    ELSE MoveJointGoal(args, target_pose_str,
                       DetermineGoal(sim, convert_tdl_to_meters(pose_dict)))

\* _plan_move_joint, lines 198-238, given the resolved pose string
MoveJointResolved(args, sim, target_pose_str) ==
    MoveJointParsed(args, sim, target_pose_str, parse_tdl_pose(target_pose_str))

\* TDLMotionPlanner._plan_move_joint
_plan_move_joint(args, sim) ==
    MoveJointResolved(args, sim, _resolve_pose(Get(args, "target_pose", Word(""))))

\* _plan_move_linear, lines 176-180, given what plan_linear_trajectory returned
MoveLinearPlanned(target_pose_str, planned) ==
    [ret |-> Tagged(planned.ret, "MoveLinear", target_pose_str),
     calls |-> planned.calls,
     sim |-> planned.sim,
     synth |-> << [fn |-> "plan_linear_trajectory", start |-> current_joints,
                   ok |-> IsTrajectory(planned.ret)] >>]

\* MoveLinearConverted, were the trajectory to a joint pose tagged as the others
MoveLinearTaggingAll(args, sim, target_pose_str, pose_converted) ==
    IF pose_converted.type = "cartesian"
    THEN MoveLinearPlanned(target_pose_str,
             plan_linear_trajectory(sim, current_joints,
                                    pose_converted.position, pose_converted.orientation,
                                    Get(args, "velocity", DefaultVelocity),
                                    Get(args, "acceleration", DefaultAcceleration),
                                    NumWaypoints))
    ELSE IF pose_converted.type = "joint"
    THEN [_plan_move_joint(args, sim) EXCEPT
             !.ret = Tagged(@, "MoveLinear", target_pose_str)]
    ELSE Returned(None, <<>>, sim)

\* _plan_move_linear, lines 164-187, given the converted pose
MoveLinearConverted(args, sim, target_pose_str, pose_converted) ==
    IF pose_converted.type = "cartesian"
    THEN MoveLinearPlanned(target_pose_str,
             plan_linear_trajectory(sim, current_joints,
                                    pose_converted.position, pose_converted.orientation,
                                    Get(args, "velocity", DefaultVelocity),
                                    Get(args, "acceleration", DefaultAcceleration),
                                    NumWaypoints))
    ELSE IF pose_converted.type = "joint"
    THEN _plan_move_joint(args, sim)
    ELSE Returned(None, <<>>, sim)

\* _plan_move_linear, lines 157-187, given what parse_tdl_pose returned
MoveLinearParsed(args, sim, target_pose_str, pose_dict) ==
    IF pose_dict = Raise THEN Returned(Raise, <<>>, sim)
    ELSE IF pose_dict = None THEN Returned(None, <<>>, sim)
    ELSE MoveLinearConverted(args, sim, target_pose_str, convert_tdl_to_meters(pose_dict))

\* _plan_move_linear, lines 155-187, given the resolved pose string
MoveLinearResolved(args, sim, target_pose_str) ==
    MoveLinearParsed(args, sim, target_pose_str, parse_tdl_pose(target_pose_str))

\* TDLMotionPlanner._plan_move_linear
_plan_move_linear(args, sim) ==
    MoveLinearResolved(args, sim, _resolve_pose(Get(args, "target_pose", Word(""))))

\* _is_motion_command, were MoveCircular not among the motion commands
IsSynthesizedMotion(command) ==
    command.command_type \in {"MoveLinear", "MoveJoint"}

\* TDLMotionPlanner._is_motion_command
_is_motion_command(command) ==
    command.command_type \in {"MoveLinear", "MoveJoint", "MoveCircular"}

\* _estimate_command_duration, were 'duration' looked up before 'duration_sec'
EstimatePreferringDuration(command) ==
    IF command.command_type = "Delay"
    THEN 1000 * Get(command.args, "duration", Get(command.args, "duration_sec", 0))
    ELSE IF command.command_type \in {"SetDigitalOutput", "GetDigitalInput"} THEN 10
    ELSE IF command.command_type \in {"GraspObject", "ReleaseObject"} THEN 500
    ELSE IF command.command_type \in {"ArcOn", "ArcOff"} THEN 100
    ELSE 0

\* TDLMotionPlanner._estimate_command_duration, in milliseconds
_estimate_command_duration(command) ==
    IF command.command_type = "Delay"
    THEN 1000 * Get(command.args, "duration_sec", Get(command.args, "duration", 0))
    ELSE IF command.command_type \in {"SetDigitalOutput", "GetDigitalInput"} THEN 10
    ELSE IF command.command_type \in {"GraspObject", "ReleaseObject"} THEN 500
    ELSE IF command.command_type \in {"ArcOn", "ArcOff"} THEN 100
    ELSE 0

\* TDLMotionPlanner._plan_command
_plan_command(command, sim) ==
    IF command.command_type = "MoveLinear" THEN _plan_move_linear(command.args, sim)
    ELSE IF command.command_type = "MoveJoint" THEN _plan_move_joint(command.args, sim)
    ELSE IF command.command_type = "MoveCircular" THEN Returned(None, <<>>, sim)
    ELSE Returned([type |-> "non_motion",
                   command |-> command.command_type,
                   args |-> command.args,
                   duration |-> _estimate_command_duration(command)],
                  <<>>, sim)

-----------------------------------------------------------------------------
(* The inputs of a planning pass *)

Cmd(command_type, args) == [command_type |-> command_type, args |-> args]

NoArgs == [k \in {} |-> 0]

Commands ==
    { Cmd("MoveJoint",  [target_pose |-> PosJ(<<"90", "0", "0", "0", "0", "0">>)]),
      Cmd("MoveJoint",  [target_pose |-> PosJ(<<"200", "0", "0", "0", "0", "0">>)]),
      Cmd("MoveJoint",  [target_pose |-> PosJ(<<"45", "0", "0">>)]),
      Cmd("MoveJoint",  [target_pose |-> PosJ(<<"abc", "0", "0", "0", "0", "0">>)]),
      Cmd("MoveLinear", [target_pose |-> PosX(<<"300", "200", "50", "0", "0", "0">>)]),
      Cmd("MoveCircular", [target_pose |-> PosX(<<"300", "200", "50", "0", "0", "0">>)]),
      Cmd("Delay", [duration_sec |-> 2]) }

GoalNames == <<"A", "B", "C", "D", "E", "F">>

\* every list of at most g command lists holding at most c commands together
RECURSIVE CommandLists(_, _)
CommandLists(g, c) ==
    {<<>>} \cup
    (IF g = 0 THEN {}
     ELSE UNION { { <<cs>> \o rest : cs \in [1..n -> Commands],
                                     rest \in CommandLists(g - 1, c - n) } : n \in 0..c })

\* the Programs of at most g Goals holding at most c commands together
Programs(g, c) ==
    { [goals |-> [i \in 1..Len(cl) |-> [name |-> GoalNames[i], commands |-> cl[i]]],
       definitions |-> [n \in {"Home"} |-> PosJ(<<"0", "0", "0", "0", "0", "0">>)]]
      : cl \in CommandLists(g, c) }

ZeroJoints == [k \in 1..DOF |-> 0]

\* joint limits of +-180 degrees on every joint
SymmetricLimits == [k \in 1..DOF |-> <<-PiMicro, PiMicro>>]

-----------------------------------------------------------------------------
(* One planning pass: TDLMotionPlanner.plan_tdl_program *)

vars == <<tdl_program, check_collisions, joint_limits, obstacle_from, sim_joints,
          current_joints, motion_plan, trajectories, gi, ci, pc,
          last_call, synth_log, last_end, attempts, earlier,
          request, text, line_no, current_goal>>

\* what the steps of a planning pass never touch: single calls, the parser, and
\* the record of the earlier passes
aside == <<request, text, line_no, current_goal, earlier>>

NoRequest == [fn |-> "none"]

NoCall == [gi |-> 0, ci |-> 0, ret |-> None, calls |-> <<>>, synth |-> <<>>,
           sim |-> <<>>, cursor_before |-> <<>>, aborted |-> FALSE]

EmptyPlan == [goals |-> <<>>, total_duration |-> 0, total_waypoints |-> 0,
              success |-> TRUE, errors |-> <<>>]

\* the planner and its collaborators as constructed (TDLMotionPlanner.__init__),
\* and the Program handed to plan_tdl_program
Init ==
    /\ tdl_program \in Programs(MaxGoals, MaxCommands)
    /\ check_collisions = TRUE      \* the default of TrajectoryPlanner.__init__
    /\ joint_limits = SymmetricLimits
    /\ obstacle_from = radians(120)
    /\ sim_joints = ZeroJoints
    /\ current_joints = <<>>          \* self.current_joints = None
    /\ motion_plan = EmptyPlan
    /\ trajectories = <<>>
    /\ gi = 1
    /\ ci = 1
    /\ pc = "idle"
    /\ last_call = NoCall
    /\ synth_log = <<>>
    /\ last_end = <<>>
    /\ attempts = <<>>
    /\ earlier = <<>>
    /\ request = NoRequest
    /\ text = <<>>
    /\ line_no = 0
    /\ current_goal = 0

\* plan_tdl_program, lines 46-57: the fresh MotionPlan and the home cursor
Start ==
    /\ pc = "idle"
    /\ pc' = "planning"
    /\ motion_plan' = EmptyPlan
    /\ current_joints' = ZeroJoints
    /\ trajectories' = <<>>
    /\ gi' = 1
    /\ ci' = 1
    /\ last_call' = NoCall
    /\ synth_log' = <<>>
    /\ last_end' = ZeroJoints
    /\ attempts' = [g \in 1..Len(tdl_program.goals) |-> <<>>]
    /\ UNCHANGED <<aside, tdl_program, check_collisions, joint_limits, obstacle_from, sim_joints>>

AtCommand ==
    /\ pc = "planning"
    /\ gi <= Len(tdl_program.goals)
    /\ ci <= Len(tdl_program.goals[gi].commands)

TheGoal == tdl_program.goals[gi]
TheCommand == TheGoal.commands[ci]

\* "if trajectory and 'waypoints' in trajectory"
HasWaypoints(ret) == ret # None /\ "waypoints" \in DOMAIN ret

FinalWaypoint(ret) == ret.waypoints[Len(ret.waypoints)]

\* the record of one _plan_command call: what it returned and did, where the cursor
\* was, and whether _plan_goal gives up on it (line 95)
Called(command, out) ==
    [gi |-> gi, ci |-> ci, ret |-> out.ret, calls |-> out.calls, synth |-> out.synth,
     sim |-> out.sim, cursor_before |-> current_joints,
     aborted |-> (out.ret = None /\ _is_motion_command(command))]

Outcome(call) ==
    IF call.ret = Raise THEN "raised" ELSE IF call.aborted THEN "aborted" ELSE "planned"

\* the command at (gi, ci) is handed to _plan_command (line 93); last_call' holds
\* the outcome, and the observation variables follow it
PlanTheCommand ==
    /\ last_call' = Called(TheCommand, _plan_command(TheCommand, sim_joints))
    /\ sim_joints' = last_call'.sim
    /\ synth_log' = synth_log \o
           [k \in 1..Len(last_call'.synth) |->
               [fn |-> last_call'.synth[k].fn, start |-> last_call'.synth[k].start,
                ok |-> last_call'.synth[k].ok, expected |-> last_end, gi |-> gi]]
    /\ last_end' = IF last_call'.synth # <<>> /\ IsTrajectory(last_call'.ret)
                   THEN FinalWaypoint(last_call'.ret)
                   ELSE last_end
    /\ attempts' = [attempts EXCEPT ![gi] = Append(@, Outcome(last_call'))]

\* an exception leaves _plan_command, _plan_goal and plan_tdl_program
Raises ==
    /\ last_call'.ret = Raise
    /\ pc' = "raised"
    /\ UNCHANGED <<current_joints, motion_plan, trajectories, gi, ci>>

\* Aborts, were a failed Goal to end the walk over the Goals
AbortsEndingThePass ==
    /\ last_call'.ret # Raise
    /\ last_call'.aborted
    /\ motion_plan' = [motion_plan EXCEPT
                          !.success = FALSE,
                          !.errors = Append(@, [text |-> "Failed to plan GOAL",
                                                name |-> TheGoal.name])]
    /\ gi' = Len(tdl_program.goals) + 1
    /\ ci' = 1
    /\ trajectories' = <<>>
    /\ UNCHANGED <<current_joints, pc>>

\* Aborts, were success left as it is
AbortsKeepingSuccess ==
    /\ last_call'.ret # Raise
    /\ last_call'.aborted
    /\ motion_plan' = [motion_plan EXCEPT
                          !.errors = Append(@, [text |-> "Failed to plan GOAL",
                                                name |-> TheGoal.name])]
    /\ gi' = gi + 1
    /\ ci' = 1
    /\ trajectories' = <<>>
    /\ UNCHANGED <<current_joints, pc>>

\* Aborts, were the cursor sent home by a failure
AbortsHoming ==
    /\ last_call'.ret # Raise
    /\ last_call'.aborted
    /\ motion_plan' = [motion_plan EXCEPT
                          !.success = FALSE,
                          !.errors = Append(@, [text |-> "Failed to plan GOAL",
                                                name |-> TheGoal.name])]
    /\ gi' = gi + 1
    /\ ci' = 1
    /\ trajectories' = <<>>
    /\ current_joints' = [k \in 1..DOF |-> 0]
    /\ UNCHANGED pc

\* Aborts, were the failed command handed to _plan_command once more
AbortsRetrying ==
    /\ last_call'.ret # Raise
    /\ last_call'.aborted
    /\ UNCHANGED <<motion_plan, trajectories, gi, ci, current_joints, pc>>

\* Aborts, were the waypoints planned before the failure counted in the total
AbortsCounting ==
    /\ last_call'.ret # Raise
    /\ last_call'.aborted
    /\ motion_plan' = [motion_plan EXCEPT
                          !.success = FALSE,
                          !.errors = Append(@, [text |-> "Failed to plan GOAL",
                                                name |-> TheGoal.name]),
                          !.total_waypoints = @ + SumSeq(
                              [i \in DOMAIN trajectories |->
                                  IF HasWaypoints(trajectories[i])
                                  THEN trajectories[i].num_waypoints ELSE 0])]
    /\ gi' = gi + 1
    /\ ci' = 1
    /\ trajectories' = <<>>
    /\ UNCHANGED <<current_joints, pc>>

\* _plan_goal returns None (lines 95-97) and plan_tdl_program records it (lines 62-65)
Aborts ==
    /\ last_call'.ret # Raise
    /\ last_call'.aborted
    /\ motion_plan' = [motion_plan EXCEPT
                          !.success = FALSE,
                          !.errors = Append(@, [text |-> "Failed to plan GOAL",
                                                name |-> TheGoal.name])]
    /\ gi' = gi + 1
    /\ ci' = 1
    /\ trajectories' = <<>>
    /\ UNCHANGED <<current_joints, pc>>

\* Appends, were the cursor sent home by a record without waypoints
AppendsHoming ==
    /\ last_call'.ret # Raise
    /\ ~last_call'.aborted
    /\ trajectories' = Append(trajectories, last_call'.ret)
    /\ current_joints' = IF HasWaypoints(last_call'.ret)
                         THEN FinalWaypoint(last_call'.ret)
                         ELSE [k \in 1..DOF |-> 0]
    /\ ci' = ci + 1
    /\ UNCHANGED <<motion_plan, gi, pc>>

\* Appends, were the newest record put in front of the earlier ones
AppendsInFront ==
    /\ last_call'.ret # Raise
    /\ ~last_call'.aborted
    /\ trajectories' = <<last_call'.ret>> \o trajectories
    /\ current_joints' = IF HasWaypoints(last_call'.ret)
                         THEN FinalWaypoint(last_call'.ret)
                         ELSE current_joints
    /\ ci' = ci + 1
    /\ UNCHANGED <<motion_plan, gi, pc>>

\* _plan_goal appends the record and moves the cursor (lines 99-103)
Appends ==
    /\ last_call'.ret # Raise
    /\ ~last_call'.aborted
    /\ trajectories' = Append(trajectories, last_call'.ret)
    /\ current_joints' = IF HasWaypoints(last_call'.ret)
                         THEN FinalWaypoint(last_call'.ret)
                         ELSE current_joints
    /\ ci' = ci + 1
    /\ UNCHANGED <<motion_plan, gi, pc>>

\* one iteration of _plan_goal's loop (lines 92-103) that an exception leaves
CommandRaises ==
    /\ AtCommand
    /\ PlanTheCommand
    /\ Raises
    /\ UNCHANGED <<aside, tdl_program, check_collisions, joint_limits, obstacle_from>>

\* one iteration of _plan_goal's loop that ends the Goal (lines 92-97, 62-65)
GoalAborts ==
    /\ AtCommand
    /\ PlanTheCommand
    /\ Aborts
    /\ UNCHANGED <<aside, tdl_program, check_collisions, joint_limits, obstacle_from>>

\* one iteration of _plan_goal's loop that goes on to the next command (lines 92-103)
CommandPlanned ==
    /\ AtCommand
    /\ PlanTheCommand
    /\ Appends
    /\ UNCHANGED <<aside, tdl_program, check_collisions, joint_limits, obstacle_from>>

\* SumOf, were the records without waypoints left out of the sum
RECURSIVE SumOfMotions(_, _)
SumOfMotions(goal_plan, key) ==
    IF goal_plan = <<>> THEN 0
    ELSE (IF HasWaypoints(Head(goal_plan)) THEN Get(Head(goal_plan), key, 0) ELSE 0)
         + SumOfMotions(Tail(goal_plan), key)

\* sum(t.get(key, 0) for t in goal_plan if t)
RECURSIVE SumOf(_, _)
SumOf(goal_plan, key) ==
    IF goal_plan = <<>> THEN 0
    ELSE (IF Head(goal_plan) # None THEN Get(Head(goal_plan), key, 0) ELSE 0)
         + SumOf(Tail(goal_plan), key)

\* GoalPlanned, were the cursor reset at the Goal boundary
GoalPlannedHoming ==
    /\ pc = "planning"
    /\ gi <= Len(tdl_program.goals)
    /\ ci > Len(TheGoal.commands)
    /\ motion_plan' = [motion_plan EXCEPT
                          !.goals = Append(@, [name |-> TheGoal.name,
                                               trajectories |-> trajectories,
                                               duration |-> SumOf(trajectories, "duration"),
                                               num_commands |-> Len(TheGoal.commands)]),
                          !.total_duration = @ + SumOf(trajectories, "duration"),
                          !.total_waypoints = @ + SumOf(trajectories, "num_waypoints")]
    /\ gi' = gi + 1
    /\ ci' = 1
    /\ trajectories' = <<>>
    /\ current_joints' = [k \in 1..DOF |-> 0]
    /\ UNCHANGED <<aside, tdl_program, check_collisions, joint_limits, obstacle_from, sim_joints,
                   pc, last_call, synth_log, last_end, attempts>>

\* _plan_goal returns its list and plan_tdl_program files the Goal record (lines 67-76)
GoalPlanned ==
    /\ pc = "planning"
    /\ gi <= Len(tdl_program.goals)
    /\ ci > Len(TheGoal.commands)
    /\ motion_plan' = [motion_plan EXCEPT
                          !.goals = Append(@, [name |-> TheGoal.name,
                                               trajectories |-> trajectories,
                                               duration |-> SumOf(trajectories, "duration"),
                                               num_commands |-> Len(TheGoal.commands)]),
                          !.total_duration = @ + SumOf(trajectories, "duration"),
                          !.total_waypoints = @ + SumOf(trajectories, "num_waypoints")]
    /\ gi' = gi + 1
    /\ ci' = 1
    /\ trajectories' = <<>>
    /\ UNCHANGED <<aside, tdl_program, check_collisions, joint_limits, obstacle_from, sim_joints,
                   current_joints, pc, last_call, synth_log, last_end, attempts>>

\* plan_tdl_program returns motion_plan (line 78)
Return ==
    /\ pc = "planning"
    /\ gi > Len(tdl_program.goals)
    /\ pc' = "done"
    /\ UNCHANGED <<aside, tdl_program, check_collisions, joint_limits, obstacle_from, sim_joints,
                   current_joints, motion_plan, trajectories, gi, ci,
                   last_call, synth_log, last_end, attempts>>

Next == Start \/ CommandRaises \/ GoalAborts \/ CommandPlanned \/ GoalPlanned \/ Return

Spec == Init /\ [][Next]_vars

-----------------------------------------------------------------------------
(* Properties of a planning pass (specification Spec) *)

CommandAt(g, c) == tdl_program.goals[g].commands[c]

\* the Goals whose planning was given up, from the outcomes of their commands
Aborted(g) == attempts[g] # <<>> /\ attempts[g][Len(attempts[g])] = "aborted"
AbortedGoals == {g \in DOMAIN attempts : Aborted(g)}

ErrorsNaming(name) == {e \in DOMAIN motion_plan.errors : motion_plan.errors[e].name = name}
RecordsNaming(name) == {r \in DOMAIN motion_plan.goals : motion_plan.goals[r].name = name}

\* C1: every call of plan_joint_trajectory or plan_linear_trajectory in a pass gets
\* as start the final waypoint of the most recent trajectory synthesized in the pass,
\* in whichever Goal, or the zero configuration when there is none yet.
C1_CursorContinuity ==
    \A k \in DOMAIN synth_log : synth_log[k].start = synth_log[k].expected

\* a synthesis call of the second Goal that starts where the first Goal ended
C1_Witness ==
    \E k \in DOMAIN synth_log :
        /\ synth_log[k].gi = 2
        /\ synth_log[k].start # ZeroJoints
        /\ \E j \in 1..(k - 1) : synth_log[j].gi = 1 /\ synth_log[j].ok

\* C2: when _plan_command returns None for a MoveLinear or MoveJoint command, no
\* later command of its Goal is attempted and exactly one error names the Goal;
\* and when the pass returns, success is false and every later Goal that did not
\* fail itself has a record holding one entry per command.
C2_PartialFailure ==
    \A g \in DOMAIN attempts :
        \A c \in DOMAIN attempts[g] :
            (attempts[g][c] = "aborted"
             /\ CommandAt(g, c).command_type \in {"MoveLinear", "MoveJoint"})
            => /\ Len(attempts[g]) = c
               /\ Cardinality(ErrorsNaming(tdl_program.goals[g].name)) = 1
               /\ pc = "done" =>
                    /\ motion_plan.success = FALSE
                    /\ \A h \in DOMAIN attempts :
                          (h > g /\ ~Aborted(h)) =>
                             \E r \in RecordsNaming(tdl_program.goals[h].name) :
                                /\ Len(motion_plan.goals[r].trajectories)
                                      = Len(tdl_program.goals[h].commands)
                                /\ \A t \in DOMAIN motion_plan.goals[r].trajectories :
                                      motion_plan.goals[r].trajectories[t] # None

\* a returned pass whose first Goal failed at a MoveJoint or MoveLinear with a
\* command left over, and whose second Goal has a record with a trajectory
C2_Witness ==
    /\ pc = "done"
    /\ Len(attempts) = 2
    /\ Aborted(1)
    /\ CommandAt(1, Len(attempts[1])).command_type \in {"MoveLinear", "MoveJoint"}
    /\ Len(attempts[1]) < Len(tdl_program.goals[1].commands)
    /\ ~Aborted(2)
    /\ \E r \in RecordsNaming(tdl_program.goals[2].name) :
          \E t \in DOMAIN motion_plan.goals[r].trajectories :
             HasWaypoints(motion_plan.goals[r].trajectories[t])

\* C3: a MoveCircular command does not abort its Goal and records no error.
C3_MoveCircularNotFatal ==
    (last_call.gi > 0
     /\ CommandAt(last_call.gi, last_call.ci).command_type = "MoveCircular")
    => /\ ~last_call.aborted
       /\ ErrorsNaming(tdl_program.goals[last_call.gi].name) = {}

\* the k-th smallest member of a set of numbers
Kth(S, k) == CHOOSE g \in S : Cardinality({h \in S : h < g}) = k - 1

\* C4: when plan_tdl_program returns, success is false exactly when some Goal was
\* given up, and errors holds one entry per such Goal, in declaration order, each
\* naming its Goal.
C4_SuccessAndErrors ==
    pc = "done" =>
        /\ motion_plan.success = (AbortedGoals = {})
        /\ Len(motion_plan.errors) = Cardinality(AbortedGoals)
        /\ \A e \in DOMAIN motion_plan.errors :
              motion_plan.errors[e].name = tdl_program.goals[Kth(AbortedGoals, e)].name

\* a returned pass in which both Goals were given up
C4_Witness ==
    /\ pc = "done"
    /\ Cardinality(AbortedGoals) = 2
    /\ motion_plan.success = FALSE

\* C5: right after a Goal is given up the cursor is where it was before the failed
\* command, which is the final waypoint of the last trajectory synthesized before
\* it, in this Goal or an earlier one; the next synthesis call starts from there.
C5_CursorAfterAbort ==
    /\ (last_call.gi > 0 /\ last_call.aborted) =>
          /\ current_joints = last_call.cursor_before
          /\ current_joints = last_end
    /\ \A k \in DOMAIN synth_log :
          (synth_log[k].gi > 1 /\ Aborted(synth_log[k].gi - 1)
           /\ \A j \in 1..(k - 1) : synth_log[j].gi < synth_log[k].gi)
          => synth_log[k].start = synth_log[k].expected

\* a Goal given up at its second command after its first moved the cursor
C5_Witness ==
    /\ last_call.gi > 0
    /\ last_call.aborted
    /\ last_call.ci = 2
    /\ last_call.synth # <<>>
    /\ current_joints # ZeroJoints
    /\ \E k \in DOMAIN synth_log : synth_log[k].gi = last_call.gi /\ synth_log[k].ok

\* C6: a command that is not MoveLinear, MoveJoint or MoveCircular yields a
\* non-motion event record, leaves the cursor where it was and makes no call to the
\* Kinematics Provider.
C6_NonMotionEvent ==
    (last_call.gi > 0
     /\ ~_is_motion_command(CommandAt(last_call.gi, last_call.ci)))
    => /\ last_call.ret # None
       /\ last_call.ret # Raise
       /\ last_call.ret.type = "non_motion"
       /\ last_call.calls = <<>>
       /\ last_call.synth = <<>>
       /\ last_call.sim = sim_joints
       /\ current_joints = last_call.cursor_before

\* a Delay planned after a motion moved the cursor
C6_Witness ==
    /\ last_call.gi > 0
    /\ last_call.ci > 1
    /\ CommandAt(last_call.gi, last_call.ci).command_type = "Delay"
    /\ current_joints # ZeroJoints
    /\ last_call.ret # None

-----------------------------------------------------------------------------
(* Single calls of the trajectory synthesizer (specification SpecSynth):    *)
(* plan_joint_trajectory and plan_linear_trajectory are public methods, and *)
(* a caller may hand them any start configuration.                          *)

\* a joint configuration given in degrees
Degrees(d) == [k \in 1..Len(d) |-> radians(d[k])]

Configurations ==
    { Degrees(<<0, 0, 0, 0, 0, 0>>),
      Degrees(<<90, 0, 0, 0, 0, 0>>),
      Degrees(<<0, 90, 0, 0, 0, 0>>),
      Degrees(<<0, 150, 0, 0, 0, 0>>),
      Degrees(<<200, 0, 0, 0, 0, 0>>) }      \* joint 1 beyond its limit of 180 degrees

\* Cartesian targets, in 1/MetreScale m: one within Reach, one beyond
Positions == { <<metres(300), metres(200), metres(50)>>, <<metres(900), 0, 0>> }

\* target orientations: one every joint can take, one beyond the limit of 180 degrees
Orientations == { <<0, 0, 0>>, <<radians(200), 0, 0>> }

\* the calls with at most w waypoints
SynthRequests(w) ==
    { [fn |-> "plan_joint_trajectory", start_joints |-> s, goal_joints |-> g,
       velocity |-> DefaultVelocity, acceleration |-> DefaultAcceleration,
       num_waypoints |-> n]
      : s \in Configurations, g \in Configurations, n \in 1..w }
    \cup
    { [fn |-> "plan_linear_trajectory", start_joints |-> s, goal_pos |-> g,
       goal_orn |-> o,
       velocity |-> DefaultVelocity, acceleration |-> DefaultAcceleration,
       num_waypoints |-> n]
      : s \in Configurations, g \in Positions, o \in Orientations, n \in 1..w }

EmptyProgram == [goals |-> <<>>, definitions |-> [n \in {} |-> Word("")]]

\* no planning pass and no parse is under way
NoPass ==
    /\ motion_plan = EmptyPlan
    /\ trajectories = <<>>
    /\ gi = 0
    /\ ci = 0
    /\ synth_log = <<>>
    /\ last_end = <<>>
    /\ attempts = <<>>
    /\ earlier = <<>>

NoParse ==
    /\ text = <<>>
    /\ line_no = 0
    /\ current_goal = 0

\* a TrajectoryPlanner as constructed (collision checking on or off, main.py line 244)
\* and the call it is about to get
SynthInit ==
    /\ request \in SynthRequests(NumWaypoints)
    /\ check_collisions \in BOOLEAN
    /\ joint_limits = SymmetricLimits
    /\ obstacle_from \in {radians(60), radians(120)}
    /\ sim_joints = ZeroJoints
    /\ current_joints = <<>>
    /\ tdl_program = EmptyProgram
    /\ pc = "idle"
    /\ last_call = NoCall
    /\ NoPass
    /\ NoParse

\* what a single call returned and did
Answered(out) == [ret |-> out.ret, calls |-> out.calls, sim |-> out.sim]

\* the call returns (or raises): the only state it leaves is the simulator's
Answer ==
    /\ pc' = "returned"
    /\ sim_joints' = last_call'.sim
    /\ UNCHANGED <<tdl_program, check_collisions, joint_limits, obstacle_from,
                   current_joints, motion_plan, trajectories, gi, ci,
                   synth_log, last_end, attempts, earlier, request, text, line_no, current_goal>>

\* TrajectoryPlanner.plan_joint_trajectory is called
CallJoint ==
    /\ pc = "idle"
    /\ request.fn = "plan_joint_trajectory"
    /\ last_call' = Answered(plan_joint_trajectory(sim_joints, request.start_joints,
                                 request.goal_joints, request.velocity,
                                 request.acceleration, request.num_waypoints))
    /\ Answer

\* TrajectoryPlanner.plan_linear_trajectory is called
CallLinear ==
    /\ pc = "idle"
    /\ request.fn = "plan_linear_trajectory"
    /\ last_call' = Answered(plan_linear_trajectory(sim_joints, request.start_joints,
                                 request.goal_pos, request.goal_orn, request.velocity,
                                 request.acceleration, request.num_waypoints))
    /\ Answer

SynthNext == CallJoint \/ CallLinear

SpecSynth == SynthInit /\ [][SynthNext]_vars

\* C7: plan_joint_trajectory returns a trajectory only if every waypoint, the first
\* included, has every joint inside its limits.
C7_EveryWaypointInLimits ==
    (pc = "returned" /\ request.fn = "plan_joint_trajectory"
     /\ IsTrajectory(last_call.ret))
    => \A w \in DOMAIN last_call.ret.waypoints :
          _check_joint_limits(last_call.ret.waypoints[w])

\* the collision queries among the provider calls of the last call
CollisionCalls == SelectSeq(last_call.calls, LAMBDA c : c.op = "collision")

\* C10: with collision checking on, plan_joint_trajectory asks the collision
\* predicate about the waypoints in index order, asks nothing after the first
\* waypoint in collision and then returns failure; with collision checking off,
\* neither synthesis operation asks the collision predicate at all.
C10_CollisionQueries ==
    pc = "returned" =>
        /\ ~check_collisions => CollisionCalls = <<>>
        /\ (check_collisions /\ request.fn = "plan_joint_trajectory") =>
              LET waypoints == _interpolate_joint_path(request.start_joints,
                                   request.goal_joints, request.num_waypoints)
                  calls == last_call.calls
              IN  /\ Len(calls) <= Len(waypoints)
                  /\ \A i \in DOMAIN calls :
                        /\ calls[i] = [op |-> "collision", index |-> i - 1,
                                       joints |-> waypoints[i]]
                        /\ _is_in_collision(ZeroJoints, waypoints[i])
                           => (i = Len(calls) /\ last_call.ret = None)
                  /\ (_check_joint_limits(request.goal_joints)
                      /\ \A i \in DOMAIN calls : ~_is_in_collision(ZeroJoints, waypoints[i]))
                     => Len(calls) = Len(waypoints)

\* a joint call that stopped at a waypoint in collision after asking about an
\* earlier one and before reaching the last
C10_Witness ==
    /\ pc = "returned"
    /\ check_collisions
    /\ request.fn = "plan_joint_trajectory"
    /\ last_call.ret = None
    /\ Len(last_call.calls) > 1
    /\ Len(last_call.calls) < request.num_waypoints

-----------------------------------------------------------------------------
(* Single uses of a pose literal (specification SpecPose): parse_tdl_pose   *)
(* alone, and a MoveJoint or MoveLinear command carrying the literal,       *)
(* planned from the zero cursor.                                            *)

Components == {"45", "abc"}

\* the literals of at most c components
PoseTexts(c) ==
    { Text(head, body, closed) :
         head \in {"PosX(", "PosJ(", "Pose("},
         body \in UNION { [1..n -> Components] : n \in 0..c },
         closed \in BOOLEAN }

PoseRequests(c) ==
    { [fn |-> fn, pose |-> pose] :
         fn \in {"parse_tdl_pose", "MoveJoint", "MoveLinear"}, pose \in PoseTexts(c) }

PoseInit ==
    /\ request \in PoseRequests(MaxComponents)
    /\ check_collisions = TRUE
    /\ joint_limits = SymmetricLimits
    /\ obstacle_from = radians(120)
    /\ sim_joints = ZeroJoints
    /\ current_joints = ZeroJoints
    /\ tdl_program = EmptyProgram
    /\ pc = "idle"
    /\ last_call = NoCall
    /\ NoPass
    /\ NoParse

\* ik_solver.parse_tdl_pose is called on the literal
ParsePose ==
    /\ pc = "idle"
    /\ request.fn = "parse_tdl_pose"
    /\ last_call' = Answered(Returned(parse_tdl_pose(request.pose), <<>>, sim_joints))
    /\ Answer

\* _plan_command is called on a MoveJoint command carrying the literal
PlanMoveJoint ==
    /\ pc = "idle"
    /\ request.fn = "MoveJoint"
    /\ last_call' = Answered(_plan_command(Cmd("MoveJoint", [target_pose |-> request.pose]),
                                           sim_joints))
    /\ Answer

\* _plan_command is called on a MoveLinear command carrying the literal
PlanMoveLinear ==
    /\ pc = "idle"
    /\ request.fn = "MoveLinear"
    /\ last_call' = Answered(_plan_command(Cmd("MoveLinear", [target_pose |-> request.pose]),
                                           sim_joints))
    /\ Answer

PoseNext == ParsePose \/ PlanMoveJoint \/ PlanMoveLinear

SpecPose == PoseInit /\ [][PoseNext]_vars

\* the literal is PosX(...) or PosJ(...) with exactly six components
SixComponents(pose) ==
    /\ pose.head \in {"PosX(", "PosJ("}
    /\ pose.closed
    /\ Len(pose.body) = 6

\* C8: a pose literal is accepted only if it is a PosX or a PosJ with exactly 6
\* components, such a literal with numeric components is accepted, and a motion
\* command carrying any other literal yields no trajectory.
C8_ExactlySixComponents ==
    pc = "returned" =>
        /\ IsTrajectory(last_call.ret) => SixComponents(request.pose)
        /\ (request.fn = "parse_tdl_pose" /\ SixComponents(request.pose)
            /\ \A k \in 1..6 : IsFloat(request.pose.body[k]))
           => IsTrajectory(last_call.ret)

-----------------------------------------------------------------------------
(* One run of the line parser, TDLParser.parse (specification SpecParse).   *)
(* A line is modelled by what parse reads of it: which test of the loop it  *)
(* passes, and the name or command the regular expressions take from it.    *)

LineKinds == {"blank", "define", "goal", "goal_bad", "open", "close", "spawn", "spawn_bad"}

\* the line of kind k at position i of a text.  "goal" is a header GOAL <name>(),
\* "goal_bad" a line that starts with GOAL and does not match the header pattern,
\* "spawn" is SPAWN Delay(duration_sec=<i>); "spawn_other" is
\* SPAWN Frobnicate(duration_sec=<i>);, a command type the planner does not know;
\* and "spawn_bad" a SPAWN without parentheses.  Position i makes the names and
\* commands of a text distinct.
Line(k, i) ==
    IF k = "goal" THEN [kind |-> k, name |-> GoalNames[i]]
    ELSE IF k = "spawn" THEN [kind |-> k, command |-> Cmd("Delay", [duration_sec |-> i])]
    ELSE IF k = "spawn_other"
    THEN [kind |-> "spawn", command |-> Cmd("Frobnicate", [duration_sec |-> i])]
    ELSE IF k = "define"
    THEN [kind |-> k, name |-> "Home", value |-> PosJ(<<"0", "0", "0", "0", "0", "0">>)]
    ELSE [kind |-> k]

\* the texts of at most l lines
Texts(l) ==
    UNION { { [i \in 1..n |-> Line(kinds[i], i)] : kinds \in [1..n -> LineKinds] }
            : n \in 0..l }

ParseInit ==
    /\ text \in Texts(MaxLines)
    /\ line_no = 1
    /\ current_goal = 0
    /\ tdl_program = EmptyProgram
    /\ pc = "parsing"
    /\ check_collisions = TRUE
    /\ joint_limits = SymmetricLimits
    /\ obstacle_from = radians(120)
    /\ sim_joints = ZeroJoints
    /\ current_joints = <<>>
    /\ last_call = NoCall
    /\ request = NoRequest
    /\ NoPass

AtLine == pc = "parsing" /\ line_no <= Len(text)

\* "i += 1", and what parse never touches
NextLine ==
    /\ line_no' = line_no + 1
    /\ UNCHANGED <<text, pc, check_collisions, joint_limits, obstacle_from, sim_joints,
                   current_joints, motion_plan, trajectories, gi, ci,
                   last_call, synth_log, last_end, attempts, earlier, request>>

\* the command types the planner treats by name
KnownTypes ==
    {"MoveLinear", "MoveJoint", "MoveCircular", "Delay", "SetDigitalOutput",
     "GetDigitalInput", "GraspObject", "ReleaseObject", "ArcOn", "ArcOff"}

\* _parse_spawn_command, were a command of another type rejected
ParseKnownSpawn(line) ==
    IF line.kind = "spawn" /\ line.command.command_type \in KnownTypes
    THEN line.command ELSE None

\* TDLParser._parse_spawn_command: the command of a line, None when it has none
_parse_spawn_command(line) == IF line.kind = "spawn" THEN line.command ELSE None

\* TDLParser._parse_define, on a line that matches its pattern
_parse_define(line, program) ==
    [program EXCEPT !.definitions =
        [n \in DOMAIN @ \cup {line.name} |-> IF n = line.name THEN line.value ELSE @[n]]]

\* lines 69-72: empty lines and comments are skipped
SkipBlank ==
    /\ AtLine
    /\ text[line_no].kind = "blank"
    /\ NextLine
    /\ UNCHANGED <<tdl_program, current_goal>>

\* lines 74-78: a DEFINE statement
ParseDefine ==
    /\ AtLine
    /\ text[line_no].kind = "define"
    /\ tdl_program' = _parse_define(text[line_no], tdl_program)
    /\ NextLine
    /\ UNCHANGED current_goal

\* lines 81-89, the header matches: a new Goal becomes the current one
ParseGoal ==
    /\ AtLine
    /\ text[line_no].kind = "goal"
    /\ tdl_program' = [tdl_program EXCEPT
                          !.goals = Append(@, [name |-> text[line_no].name,
                                               commands |-> <<>>])]
    /\ current_goal' = Len(tdl_program.goals) + 1
    /\ NextLine

\* lines 81-89, the header does not match: the line is skipped
SkipMalformedGoal ==
    /\ AtLine
    /\ text[line_no].kind = "goal_bad"
    /\ NextLine
    /\ UNCHANGED <<tdl_program, current_goal>>

\* lines 91-94: braces are skipped
SkipBrace ==
    /\ AtLine
    /\ text[line_no].kind \in {"open", "close"}
    /\ NextLine
    /\ UNCHANGED <<tdl_program, current_goal>>

\* lines 96-101: a SPAWN line while a Goal is current, with a command
ParseSpawn ==
    /\ AtLine
    /\ text[line_no].kind \in {"spawn", "spawn_bad"}
    /\ current_goal # 0
    /\ _parse_spawn_command(text[line_no]) # None
    /\ tdl_program' = [tdl_program EXCEPT
                          !.goals[current_goal].commands =
                              Append(@, _parse_spawn_command(text[line_no]))]
    /\ NextLine
    /\ UNCHANGED current_goal

\* lines 96-101: a SPAWN line with no current Goal, or with no command in it
DropSpawn ==
    /\ AtLine
    /\ text[line_no].kind \in {"spawn", "spawn_bad"}
    /\ (current_goal = 0 \/ _parse_spawn_command(text[line_no]) = None)
    /\ NextLine
    /\ UNCHANGED <<tdl_program, current_goal>>

\* line 103: return program
ReturnProgram ==
    /\ pc = "parsing"
    /\ line_no > Len(text)
    /\ pc' = "parsed"
    /\ UNCHANGED <<tdl_program, current_goal, text, line_no,
                   check_collisions, joint_limits, obstacle_from, sim_joints,
                   current_joints, motion_plan, trajectories, gi, ci,
                   last_call, synth_log, last_end, attempts, earlier, request>>

ParseNext ==
    \/ SkipBlank \/ ParseDefine \/ ParseGoal \/ SkipMalformedGoal \/ SkipBrace
    \/ ParseSpawn \/ DropSpawn \/ ReturnProgram

SpecParse == ParseInit /\ [][ParseNext]_vars

\* line i lies outside every GOAL block: of the headers and closing braces before
\* it, the last is a closing brace or a malformed header, or there is none
OutsideBlock(i) ==
    LET before == {j \in 1..(i - 1) : text[j].kind \in {"goal", "goal_bad", "close"}}
    IN  \/ before = {}
        \/ \E j \in before : /\ \A h \in before : h <= j
                             /\ text[j].kind \in {"close", "goal_bad"}

\* C9: when parse returns, the command of a SPAWN line outside every GOAL block is
\* in no Goal's command list, and the Program has one Goal per well-formed header.
C9_OutsideCommandsDropped ==
    pc = "parsed" =>
        /\ \A i \in DOMAIN text :
              (text[i].kind = "spawn" /\ OutsideBlock(i)) =>
                 \A g \in DOMAIN tdl_program.goals :
                    \A c \in DOMAIN tdl_program.goals[g].commands :
                       tdl_program.goals[g].commands[c] # text[i].command
        /\ Len(tdl_program.goals)
              = Cardinality({i \in DOMAIN text : text[i].kind = "goal"})

-----------------------------------------------------------------------------
(* Further properties of single synthesizer calls (specification SpecSynth) *)

\* the inverse-kinematics calls among the provider calls of the last call
IKCalls == SelectSeq(last_call.calls, LAMBDA c : c.op = "ik")

\* the sample an inverse-kinematics call was made for passes the three tests of
\* the loop body: a solution exists, within the limits, not in collision
SampleAccepted(call) ==
    LET joint_solution == solve_ik_from_euler(call.pos, call.orn)
    IN  /\ joint_solution # None
        /\ joint_solution # Raise
        /\ _check_joint_limits(joint_solution.joints)
        /\ ~(check_collisions /\ _is_in_collision(ZeroJoints, joint_solution.joints))

\* C11: in plan_linear_trajectory the IK calls are made for the samples in index
\* order; the first is seeded with the start configuration and each later one with
\* the solution accepted for the sample before it; the first sample whose IK fails,
\* whose solution is out of limits or in collision ends the call with None and
\* no IK call is made for a later sample.
C11_LinearSeeding ==
    (pc = "returned" /\ request.fn = "plan_linear_trajectory") =>
        LET start_pose == forward_kinematics(ResetJointState(ZeroJoints, request.start_joints))
            samples == _interpolate_cartesian_path(start_pose.position, request.goal_pos,
                                                   request.num_waypoints)
        IN  /\ Len(IKCalls) <= request.num_waypoints
            /\ \A i \in DOMAIN IKCalls :
                  /\ IKCalls[i].index = i - 1
                  /\ IKCalls[i].pos = samples[i]
                  /\ i = 1 => IKCalls[i].seed = request.start_joints
                  /\ i > 1 =>
                        /\ SampleAccepted(IKCalls[i - 1])
                        /\ IKCalls[i].seed =
                              solve_ik_from_euler(IKCalls[i - 1].pos, IKCalls[i - 1].orn).joints
                  /\ ~SampleAccepted(IKCalls[i]) =>
                        (i = Len(IKCalls) /\ last_call.ret = None)
            /\ (\A i \in DOMAIN IKCalls : SampleAccepted(IKCalls[i]))
               => Len(IKCalls) = request.num_waypoints

\* a linear call given up at a sample between the first and the last, the samples
\* before it seeded one from the other
C11_Witness ==
    /\ pc = "returned"
    /\ request.fn = "plan_linear_trajectory"
    /\ last_call.ret = None
    /\ Len(IKCalls) > 2
    /\ Len(IKCalls) < request.num_waypoints
    /\ IKCalls[3].seed # IKCalls[2].seed

-----------------------------------------------------------------------------
(* Further properties of a planning pass (specification Spec) *)

\* the records of all Goal records of the MotionPlan, in order
RECURSIVE RecordsFrom(_)
RecordsFrom(r) ==
    IF r > Len(motion_plan.goals) THEN <<>>
    ELSE motion_plan.goals[r].trajectories \o RecordsFrom(r + 1)

AllRecords == RecordsFrom(1)

\* the value of a key over all records, a record without the key counting 0
TotalOver(key) ==
    SumSeq([i \in DOMAIN AllRecords |->
               IF key \in DOMAIN AllRecords[i] THEN AllRecords[i][key] ELSE 0])

\* C12: in the returned MotionPlan total_duration is the sum of the durations of
\* all records of all Goal records, and total_waypoints the sum of their
\* num_waypoints, an event without waypoints counting 0.
C12_Totals ==
    pc = "done" =>
        /\ motion_plan.total_duration = TotalOver("duration")
        /\ motion_plan.total_waypoints = TotalOver("num_waypoints")

\* a returned plan of two Goal records holding trajectories and an event with a duration
C12_Witness ==
    /\ pc = "done"
    /\ Len(motion_plan.goals) = 2
    /\ motion_plan.total_waypoints > NumWaypoints
    /\ \E i \in DOMAIN AllRecords :
          AllRecords[i].type = "non_motion" /\ AllRecords[i].duration > 0

\* the Goals whose planning was not given up
PlannedGoals == DOMAIN attempts \ AbortedGoals

\* a record carries the marks of the command it is the result of: a trajectory its
\* command type and resolved target pose, an event its command type and arguments
ResultOf(record, command) ==
    IF _is_motion_command(command)
    THEN /\ HasWaypoints(record)
         /\ record.command = command.command_type
         /\ record.target_pose = _resolve_pose(command.args.target_pose)
    ELSE /\ record.type = "non_motion"
         /\ record.command = command.command_type
         /\ record.args = command.args

\* C13: the Goal records of the returned MotionPlan are those of the Goals not given
\* up, in the declaration order of the Goals, and the i-th record of a Goal record
\* is the result of the i-th command of its Goal.
C13_DeclarationOrder ==
    pc = "done" =>
        /\ Len(motion_plan.goals) = Cardinality(PlannedGoals)
        /\ \A r \in DOMAIN motion_plan.goals :
              LET g == Kth(PlannedGoals, r)
                  goal == tdl_program.goals[g]
                  record == motion_plan.goals[r]
              IN /\ record.name = goal.name
                 /\ Len(record.trajectories) = Len(goal.commands)
                 /\ \A i \in DOMAIN record.trajectories :
                       ResultOf(record.trajectories[i], goal.commands[i])

\* a returned plan whose first Goal record holds a trajectory before an event and
\* whose second Goal record holds a trajectory of another command
C13_Witness ==
    /\ pc = "done"
    /\ Len(motion_plan.goals) = 2
    /\ Len(motion_plan.goals[1].trajectories) = 2
    /\ HasWaypoints(motion_plan.goals[1].trajectories[1])
    /\ motion_plan.goals[1].trajectories[2].type = "non_motion"
    /\ Len(motion_plan.goals[2].trajectories) = 1
    /\ HasWaypoints(motion_plan.goals[2].trajectories[1])
    /\ motion_plan.goals[2].trajectories[1].command
          # motion_plan.goals[1].trajectories[1].command

\* the commands of Goal g handed to _plan_command so far that are MoveLinear or MoveJoint
MovesAttempted(g) ==
    {c \in DOMAIN attempts[g] : CommandAt(g, c).command_type \in {"MoveLinear", "MoveJoint"}}

RECURSIVE MovesAttemptedUpTo(_)
MovesAttemptedUpTo(g) ==
    IF g = 0 THEN 0 ELSE Cardinality(MovesAttempted(g)) + MovesAttemptedUpTo(g - 1)

\* C17: a command causes at most one synthesizer call and at most one
\* inverse-kinematics call per sample; the k-th command handed to _plan_command in
\* a Goal is the Goal's k-th command, so none is planned twice, and nothing is
\* planned in a Goal after a command of it failed.
C17_NoRetry ==
    /\ Len(last_call.synth) <= 1
    /\ \A i, j \in DOMAIN last_call.calls :
          (/\ last_call.calls[i].op = "ik"
           /\ last_call.calls[j].op = "ik"
           /\ last_call.calls[i].index = last_call.calls[j].index) => i = j
    /\ last_call.gi # 0 => last_call.ci = Len(attempts[last_call.gi])
    /\ \A g \in DOMAIN attempts :
          /\ Len(attempts[g]) <= Len(tdl_program.goals[g].commands)
          /\ \A c \in 1..(Len(attempts[g]) - 1) : attempts[g][c] = "planned"
    /\ Len(synth_log) <= MovesAttemptedUpTo(Len(attempts))

\* a returned pass in which the second of three commands failed after a linear
\* trajectory of one inverse-kinematics call per sample, and the third was never planned
C17_Witness ==
    /\ pc = "done"
    /\ Len(tdl_program.goals) = 1
    /\ Len(tdl_program.goals[1].commands) = 3
    /\ CommandAt(1, 1).command_type = "MoveLinear"
    /\ attempts[1] = <<"planned", "aborted">>
    /\ Len(synth_log) = 2
    /\ ~synth_log[2].ok

\* C24: no command ends the pass otherwise than by its Goal being given up or
\* planned: planning a command with bad arguments never leaves plan_tdl_program
\* by an exception, so the pass goes on to the remaining Goals and returns.
C24_EveryPassReturns ==
    /\ pc # "raised"
    /\ last_call.ret # Raise

\* C25: from the moment plan_tdl_program has set the home cursor, in every
\* state of the pass the cursor holds exactly DOF (6) joint values, whatever
\* pose literals the Program contains.
C25_SixJointCursor ==
    pc # "idle" => Len(current_joints) = DOF

\* the number of commands, and of MoveLinear and MoveJoint commands, of a set of Goals
CommandsOf(goals) ==
    SumSeq([g \in 1..Len(tdl_program.goals) |->
               IF g \in goals THEN Len(tdl_program.goals[g].commands) ELSE 0])

MovesOf(goals) ==
    SumSeq([g \in 1..Len(tdl_program.goals) |->
               IF g \in goals
               THEN Cardinality({c \in DOMAIN tdl_program.goals[g].commands :
                       CommandAt(g, c).command_type \in {"MoveLinear", "MoveJoint"}})
               ELSE 0])

\* C26: when plan_tdl_program returns, the Goal records and the errors together
\* number the Goals of the Program, and what was planned in a Goal given up is in
\* no Goal record and in no total: the records are as many as the commands of the
\* Goals not given up, total_waypoints counts the trajectories of those Goals
\* only, and total_duration is the sum over those records.
C26_AbortedGoalLeavesNoRecord ==
    pc = "done" =>
        /\ Len(motion_plan.goals) + Len(motion_plan.errors) = Len(tdl_program.goals)
        /\ Len(motion_plan.errors) = Cardinality(AbortedGoals)
        /\ Len(AllRecords) = CommandsOf(PlannedGoals)
        /\ motion_plan.total_waypoints = NumWaypoints * MovesOf(PlannedGoals)
        /\ motion_plan.total_duration = TotalOver("duration")

\* a returned pass whose first Goal was given up at its second command, after a
\* trajectory was planned in it, and whose second Goal was planned with one trajectory
C26_Witness ==
    /\ pc = "done"
    /\ Len(tdl_program.goals) = 2
    /\ attempts[1] = <<"planned", "aborted">>
    /\ CommandAt(1, 1).command_type = "MoveJoint"
    /\ Len(motion_plan.goals) = 1
    /\ Len(motion_plan.errors) = 1
    /\ motion_plan.total_waypoints = NumWaypoints

\* the motion trajectories of all Goal records of the MotionPlan, in order
MotionRecords == SelectSeq(AllRecords, HasWaypoints)

C28_OneRecordPerCommand ==
    pc = "done" =>
        /\ \A r \in DOMAIN motion_plan.goals :
              LET record == motion_plan.goals[r]
                  goal == tdl_program.goals[Kth(PlannedGoals, r)]
              IN /\ Len(record.trajectories) = record.num_commands
                 /\ record.num_commands = Len(goal.commands)
                 /\ \A i \in DOMAIN record.trajectories : record.trajectories[i] # None
                 /\ record.duration =
                        SumSeq([i \in DOMAIN record.trajectories |->
                                   record.trajectories[i].duration])
        /\ \A g \in DOMAIN tdl_program.goals :
              tdl_program.goals[g].commands = <<>> =>
                  /\ ErrorsNaming(tdl_program.goals[g].name) = {}
                  /\ \E r \in RecordsNaming(tdl_program.goals[g].name) :
                        /\ motion_plan.goals[r].trajectories = <<>>
                        /\ motion_plan.goals[r].duration = 0
                        /\ motion_plan.goals[r].num_commands = 0

\* a returned plan holding the record of a Goal without commands and, after it,
\* the record of a Goal of a trajectory and an event
C28_Witness ==
    /\ pc = "done"
    /\ Len(tdl_program.goals) = 2
    /\ tdl_program.goals[1].commands = <<>>
    /\ Len(motion_plan.goals) = 2
    /\ motion_plan.goals[1].trajectories = <<>>
    /\ Len(motion_plan.goals[2].trajectories) = 2
    /\ HasWaypoints(motion_plan.goals[2].trajectories[1])
    /\ motion_plan.goals[2].trajectories[2].type = "non_motion"
    /\ motion_plan.goals[2].duration > motion_plan.goals[2].trajectories[1].duration

-----------------------------------------------------------------------------
(* Passes one after the other on the same planner (specification SpecAgain) *)

MaxPasses == 2

RepeatCommands ==
    { Cmd("MoveJoint",  [target_pose |-> PosJ(<<"90", "0", "0", "0", "0", "0">>)]),
      Cmd("MoveJoint",  [target_pose |-> PosJ(<<"45", "0", "0">>)]),
      Cmd("MoveJoint",  [target_pose |-> PosJ(<<"abc", "0", "0", "0", "0", "0">>)]),
      Cmd("MoveLinear", [target_pose |-> PosX(<<"300", "200", "50", "0", "150", "0">>)]),
      Cmd("Delay", [duration_sec |-> 2]) }

\* the Programs of at most g Goals of one or two commands each
RepeatPrograms(g) ==
    { [goals |-> [i \in 1..Len(cl) |-> [name |-> GoalNames[i], commands |-> cl[i]]],
       definitions |-> [d \in {"Home"} |-> PosJ(<<"0", "0", "0", "0", "0", "0">>)]]
      : cl \in UNION { [1..n -> [1..1 -> RepeatCommands] \cup [1..2 -> RepeatCommands]]
                       : n \in 0..g } }

\* a freshly constructed planner and the Program it is about to plan
AgainInit ==
    /\ tdl_program \in RepeatPrograms(MaxGoals)
    /\ check_collisions = TRUE
    /\ joint_limits = SymmetricLimits
    /\ obstacle_from = radians(120)
    /\ sim_joints = ZeroJoints
    /\ current_joints = <<>>
    /\ motion_plan = EmptyPlan
    /\ trajectories = <<>>
    /\ gi = 1
    /\ ci = 1
    /\ pc = "idle"
    /\ last_call = NoCall
    /\ synth_log = <<>>
    /\ last_end = <<>>
    /\ attempts = <<>>
    /\ earlier = <<>>
    /\ request = NoRequest
    /\ NoParse

\* plan_tdl_program is called again with the same Program on the same planner
\* (lines 46-57): the planner's fields are set anew, the simulator is as it was left
StartAgain ==
    /\ pc \in {"done", "raised"}
    /\ Len(earlier) < MaxPasses - 1
    /\ earlier' = Append(earlier, IF pc = "done" THEN motion_plan ELSE Raise)
    /\ pc' = "planning"
    /\ motion_plan' = EmptyPlan
    /\ current_joints' = ZeroJoints
    /\ trajectories' = <<>>
    /\ gi' = 1
    /\ ci' = 1
    /\ last_call' = NoCall
    /\ synth_log' = <<>>
    /\ last_end' = ZeroJoints
    /\ attempts' = [g \in 1..Len(tdl_program.goals) |-> <<>>]
    /\ UNCHANGED <<request, text, line_no, current_goal,
                   tdl_program, check_collisions, joint_limits, obstacle_from, sim_joints>>

AgainNext ==
    Start \/ CommandRaises \/ GoalAborts \/ CommandPlanned \/ GoalPlanned \/ Return \/ StartAgain

SpecAgain == AgainInit /\ [][AgainNext]_vars

\* C14: a pass over the same Program on the same planner returns a MotionPlan equal
\* to the one the pass before it returned.
C14_EqualPlans ==
    (pc = "done" /\ earlier # <<>>) => motion_plan = earlier[Len(earlier)]

-----------------------------------------------------------------------------
(* Definition resolution (specification SpecResolve) *)

\* resolve_definition, were the literal it finds looked up once more
ResolveTwice(program, name) ==
    IF name \in DOMAIN program.definitions
    THEN LET value == program.definitions[name]
         IN IF value.body = <<>> /\ ~value.closed /\ value.head \in DOMAIN program.definitions
            THEN program.definitions[value.head]
            ELSE value
    ELSE Word(name)

\* TDLProgram.resolve_definition: self.definitions.get(name, name)
resolve_definition(program, name) ==
    IF name \in DOMAIN program.definitions THEN program.definitions[name] ELSE Word(name)

DefinedNames == {"P1", "P2"}

AskedNames == DefinedNames \cup {"P3"}

Literals == { Word("P1"), Word("P2"),
              PosJ(<<"90", "0", "0", "0", "0", "0">>),
              PosJ(<<"0", "0", "0", "0", "0", "0">>) }

\* the Programs without Goals whose DEFINEs give some of the names a literal
DefiningPrograms ==
    { [goals |-> <<>>, definitions |-> d]
      : d \in UNION { [S -> Literals] : S \in SUBSET DefinedNames } }

ResolveRequests ==
    { [fn |-> "resolve_definition", name |-> n] : n \in AskedNames } \cup
    { [fn |-> f, pose |-> t]
      : f \in {"_resolve_pose", "MoveJoint"},
        t \in { Word(n) : n \in AskedNames } \cup { PosJ(<<"90", "0", "0", "0", "0", "0">>) } }

\* a parsed Program, a planner holding it, and the call about to be made
ResolveInit ==
    /\ request \in ResolveRequests
    /\ tdl_program \in DefiningPrograms
    /\ check_collisions = TRUE
    /\ joint_limits = SymmetricLimits
    /\ obstacle_from = radians(120)
    /\ sim_joints = ZeroJoints
    /\ current_joints = ZeroJoints
    /\ pc = "idle"
    /\ last_call = NoCall
    /\ NoPass
    /\ NoParse

\* TDLProgram.resolve_definition is called on the name
ResolveDefinition ==
    /\ pc = "idle"
    /\ request.fn = "resolve_definition"
    /\ last_call' = Answered(Returned(resolve_definition(tdl_program, request.name),
                                      <<>>, sim_joints))
    /\ Answer

\* TDLMotionPlanner._resolve_pose is called on the pose string
ResolvePose ==
    /\ pc = "idle"
    /\ request.fn = "_resolve_pose"
    /\ last_call' = Answered(Returned(_resolve_pose(request.pose), <<>>, sim_joints))
    /\ Answer

ResolveNext == ResolveDefinition \/ ResolvePose \/ PlanMoveJoint

SpecResolve == ResolveInit /\ [][ResolveNext]_vars

\* the name has a DEFINE
Defined(name) == name \in DOMAIN tdl_program.definitions

\* the literal is nothing but the name of a definition
NamesADefinition(literal) == literal.body = <<>> /\ ~literal.closed /\ Defined(literal.head)

\* what single-level resolution of a name gives
SingleLevel(name, ret) ==
    /\ Defined(name) => ret = tdl_program.definitions[name]
    /\ ~Defined(name) => ret = Word(name)
    /\ (Defined(name) /\ NamesADefinition(tdl_program.definitions[name]))
          => ret = Word(tdl_program.definitions[name].head)

\* C15: resolving a name that has a DEFINE returns the stored literal, resolving a
\* name that has none returns the name, and a stored literal that is the name of
\* another definition is returned as that name; _resolve_pose does the same, and a
\* MoveJoint command plans the pose that one level of resolution gives.
C15_SingleLevel ==
    pc = "returned" =>
        /\ request.fn = "resolve_definition" => SingleLevel(request.name, last_call.ret)
        /\ (request.fn = "_resolve_pose" /\ request.pose.body = <<>> /\ ~request.pose.closed)
              => SingleLevel(request.pose.head, last_call.ret)
        /\ (request.fn = "_resolve_pose" /\ request.pose.closed)
              => last_call.ret = request.pose
        /\ (request.fn = "MoveJoint" /\ request.pose.body = <<>> /\ ~request.pose.closed)
              => IF IsTrajectory(last_call.ret)
                 THEN SingleLevel(request.pose.head, last_call.ret.target_pose)
                 ELSE ~Defined(request.pose.head)
                      \/ tdl_program.definitions[request.pose.head].body = <<>>

\* P1 is defined as the name P2, P2 as a pose, and resolving P1 returned the name P2
C15_Witness ==
    /\ pc = "returned"
    /\ request.fn = "resolve_definition"
    /\ Defined(request.name)
    /\ NamesADefinition(tdl_program.definitions[request.name])
    /\ tdl_program.definitions[tdl_program.definitions[request.name].head].closed
    /\ last_call.ret = Word(tdl_program.definitions[request.name].head)

-----------------------------------------------------------------------------
(* The duration law (specification SpecDuration) *)

\* distances in 1/1000 units: 0, 0.001, 100, 200, 200.001, 1000
Distances == {0, 1, 100000, 200000, 200001, 1000000}

Velocities == {0, 1, 50, 100}

Accelerations == {0, 1, 50, 100}

DurationRequests ==
    { [fn |-> "_calculate_duration", distance |-> d, velocity |-> v, acceleration |-> a]
      : d \in Distances, v \in Velocities, a \in Accelerations }

DurationInit ==
    /\ request \in DurationRequests
    /\ check_collisions = TRUE
    /\ joint_limits = SymmetricLimits
    /\ obstacle_from = radians(120)
    /\ sim_joints = ZeroJoints
    /\ current_joints = <<>>
    /\ tdl_program = EmptyProgram
    /\ pc = "idle"
    /\ last_call = NoCall
    /\ NoPass
    /\ NoParse

\* what _calculate_duration gave: the duration it returned, or Raise
Timed(duration) ==
    IF duration.raise THEN Raise ELSE [type |-> "duration", value |-> duration.value]

\* TrajectoryPlanner._calculate_duration is called
CalculateDuration ==
    /\ pc = "idle"
    /\ request.fn = "_calculate_duration"
    /\ last_call' = Answered(Returned(Timed(_calculate_duration(request.distance,
                                                                 request.velocity,
                                                                 request.acceleration)),
                                      <<>>, sim_joints))
    /\ Answer

DurationNext == CalculateDuration

SpecDuration == DurationInit /\ [][DurationNext]_vars

\* the law, for v > 0 and a > 0, on a result of t milliseconds (d in 1/1000 units):
\* where 2*d_a < d, that is v*v < d*a, t is 2*v/a + (d - v*v/a)/v = v/a + d/v, up to
\* the rounding of the grid; otherwise t/2 is the square root of d/a rounded down
TrapezoidalLaw(d, v, a, t) ==
    IF 1000 * v * v < d * a
    THEN Abs(t * a * v - (1000 * v * v + d * a)) <= 2 * a * v
    ELSE /\ t % 2 = 0
         /\ (t \div 2) * (t \div 2) * a <= 1000 * d
         /\ 1000 * d < ((t \div 2) + 1) * ((t \div 2) + 1) * a

-----------------------------------------------------------------------------
(* Joint interpolation (specification SpecInterp) *)

\* whole-degree angles of the first joint
Angles == {-180, -90, 0, 65, 90, 180}

OnJointOne(deg) == <<radians(deg), 0, 0, 0, 0, 0>>

InterpRequests(w) ==
    { [fn |-> "_interpolate_joint_path", start |-> OnJointOne(s), goal |-> OnJointOne(g),
       num_points |-> n]
      : s \in Angles, g \in Angles, n \in 1..w }

InterpInit ==
    /\ request \in InterpRequests(NumWaypoints)
    /\ check_collisions = TRUE
    /\ joint_limits = SymmetricLimits
    /\ obstacle_from = radians(120)
    /\ sim_joints = ZeroJoints
    /\ current_joints = <<>>
    /\ tdl_program = EmptyProgram
    /\ pc = "idle"
    /\ last_call = NoCall
    /\ NoPass
    /\ NoParse

\* TrajectoryPlanner._interpolate_joint_path is called
InterpolateJointPath ==
    /\ pc = "idle"
    /\ request.fn = "_interpolate_joint_path"
    /\ last_call' = Answered(Returned(_interpolate_joint_path(request.start, request.goal,
                                                              request.num_points),
                                      <<>>, sim_joints))
    /\ Answer

InterpNext == InterpolateJointPath

SpecInterp == InterpInit /\ [][InterpNext]_vars

\* each joint's value changes monotonically with the index, towards the goal
Monotone(waypoints, start, goal) ==
    \A i \in 1..(Len(waypoints) - 1) : \A k \in DOMAIN waypoints[i] :
        IF goal[k] >= start[k] THEN waypoints[i][k] <= waypoints[i + 1][k]
                               ELSE waypoints[i][k] >= waypoints[i + 1][k]

\* C18: joint interpolation with N >= 2 samples returns N waypoints, the first equal
\* to the start, the last equal to the goal, each joint's value monotone in the index.
C18_ExactEndpoints ==
    (pc = "returned" /\ request.fn = "_interpolate_joint_path" /\ request.num_points >= 2) =>
        /\ Len(last_call.ret) = request.num_points
        /\ last_call.ret[1] = request.start
        /\ last_call.ret[request.num_points] = request.goal
        /\ Monotone(last_call.ret, request.start, request.goal)

-----------------------------------------------------------------------------
(* The collision predicate (specification SpecContacts) *)

MaxContacts == 2

\* link indices a contact can carry: the sentinel -1 and the links 0..3
Links == {-1, 0, 1, 2, 3}

\* the contact lists of at most n contacts, each (link_a, link_b)
ContactLists(n) == UNION { [1..m -> Links \X Links] : m \in 0..n }

ContactRequests(n) ==
    { [fn |-> "_is_in_collision", contact_points |-> cp] : cp \in ContactLists(n) }

ContactsInit ==
    /\ request \in ContactRequests(MaxContacts)
    /\ check_collisions = TRUE
    /\ joint_limits = SymmetricLimits
    /\ obstacle_from = radians(120)
    /\ sim_joints = ZeroJoints
    /\ current_joints = <<>>
    /\ tdl_program = EmptyProgram
    /\ pc = "idle"
    /\ last_call = NoCall
    /\ NoPass
    /\ NoParse

\* _is_in_collision runs on a configuration for which the simulator reports the
\* contacts of the request
IsInCollision ==
    /\ pc = "idle"
    /\ request.fn = "_is_in_collision"
    /\ last_call' = Answered(Returned([type |-> "bool",
                                       value |-> Collides(request.contact_points)],
                                      <<>>, sim_joints))
    /\ Answer

ContactsNext == IsInCollision

SpecContacts == ContactsInit /\ [][ContactsNext]_vars

\* the contacts that count: neither index is the sentinel, and they differ by more than 1
Counting(contact_points) ==
    { c \in DOMAIN contact_points :
        /\ contact_points[c][1] # -1
        /\ contact_points[c][2] # -1
        /\ \/ contact_points[c][1] - contact_points[c][2] > 1
           \/ contact_points[c][2] - contact_points[c][1] > 1 }

\* C19: a configuration is in collision exactly when at least one of its contacts
\* has both link indices different from -1 and differing by more than 1.
C19_CollisionPredicate ==
    (pc = "returned" /\ request.fn = "_is_in_collision") =>
        (last_call.ret.value <=> Counting(request.contact_points) # {})

\* in collision by its second contact, the first being between neighbouring links
C19_Witness ==
    /\ pc = "returned"
    /\ request.fn = "_is_in_collision"
    /\ Len(request.contact_points) = 2
    /\ request.contact_points[1] = <<1, 2>>
    /\ request.contact_points[2] = <<3, 0>>
    /\ last_call.ret.value

-----------------------------------------------------------------------------
(* Non-motion events (specification SpecEvents) *)

EventTypes == {"Delay", "SetDigitalOutput", "GetDigitalInput", "GraspObject",
               "ReleaseObject", "ArcOn", "ArcOff", "Wait", "SetTool"}

\* argument dictionaries giving duration_sec, duration, both or neither, in seconds
DurationArgs ==
    UNION { [S -> {2, 5}] : S \in SUBSET {"duration_sec", "duration"} }

EventRequests ==
    { [fn |-> f, command |-> Cmd(t, a)]
      : f \in {"_estimate_command_duration", "_plan_command"},
        t \in EventTypes, a \in DurationArgs } \cup
    { [fn |-> "_estimate_command_duration", command |-> Cmd("MoveCircular", a)]
      : a \in DurationArgs }

EventsInit ==
    /\ request \in EventRequests
    /\ check_collisions = TRUE
    /\ joint_limits = SymmetricLimits
    /\ obstacle_from = radians(120)
    /\ sim_joints = ZeroJoints
    /\ current_joints = ZeroJoints
    /\ tdl_program = EmptyProgram
    /\ pc = "idle"
    /\ last_call = NoCall
    /\ NoPass
    /\ NoParse

\* TDLMotionPlanner._estimate_command_duration is called on the command
EstimateCommandDuration ==
    /\ pc = "idle"
    /\ request.fn = "_estimate_command_duration"
    /\ last_call' = Answered(Returned([type |-> "duration",
                                       value |-> _estimate_command_duration(request.command)],
                                      <<>>, sim_joints))
    /\ Answer

\* TDLMotionPlanner._plan_command is called on the command
PlanEvent ==
    /\ pc = "idle"
    /\ request.fn = "_plan_command"
    /\ last_call' = Answered(_plan_command(request.command, sim_joints))
    /\ Answer

EventsNext == EstimateCommandDuration \/ PlanEvent

SpecEvents == EventsInit /\ [][EventsNext]_vars

\* the duration an event got, in milliseconds
EventDuration ==
    IF request.fn = "_plan_command" THEN last_call.ret.duration ELSE last_call.ret.value

\* C20: the duration of a non-motion event is fixed by its command type: a Delay
\* gets its duration_sec argument, else its duration argument, else 0;
\* SetDigitalOutput and GetDigitalInput 10 ms; GraspObject and ReleaseObject 500 ms;
\* ArcOn and ArcOff 100 ms; every other type 0.
C20_EventDurations ==
    (pc = "returned" /\ request.fn \in {"_estimate_command_duration", "_plan_command"}) =>
        LET t == request.command.command_type
            a == request.command.args
        IN /\ (t = "Delay" /\ "duration_sec" \in DOMAIN a)
                 => EventDuration = 1000 * a.duration_sec
           /\ (t = "Delay" /\ "duration_sec" \notin DOMAIN a /\ "duration" \in DOMAIN a)
                 => EventDuration = 1000 * a.duration
           /\ (t = "Delay" /\ DOMAIN a = {}) => EventDuration = 0
           /\ t \in {"SetDigitalOutput", "GetDigitalInput"} => EventDuration = 10
           /\ t \in {"GraspObject", "ReleaseObject"} => EventDuration = 500
           /\ t \in {"ArcOn", "ArcOff"} => EventDuration = 100
           /\ t \in {"Wait", "SetTool", "MoveCircular"} => EventDuration = 0

\* the event record of a Delay given duration_sec=2 and duration=5 lasts 2 s
C20_Witness ==
    /\ pc = "returned"
    /\ request.fn = "_plan_command"
    /\ request.command.command_type = "Delay"
    /\ request.command.args = [duration_sec |-> 2, duration |-> 5]
    /\ last_call.ret.type = "non_motion"
    /\ last_call.ret.duration = 2000

-----------------------------------------------------------------------------
(* Argument parsing (specification SpecArgs).  An argument string is the    *)
(* sequence of its lexemes: a key with its "=" ("velocity="), a word or     *)
(* number, ",", "(", ")", and the opening of a pose constructor ("PosX(").  *)

KeyTokens == {"target_pose=", "offset="}

\* group 1 of the pattern: the key before the "="
KeyName(token) == IF token = "target_pose=" THEN "target_pose" ELSE "offset"

\* the index of the first lexeme t at or after from, Len(tokens) + 1 when there is none
RECURSIVE IndexOf(_, _, _)
IndexOf(tokens, t, from) ==
    IF from > Len(tokens) THEN Len(tokens) + 1
    ELSE IF tokens[from] = t THEN from
    ELSE IndexOf(tokens, t, from + 1)

\* lines 152-167: the type a value string gets
TypedValue(value) ==
    IF value[1] \in {"PosX(", "PosJ("} THEN [kind |-> "raw", text |-> value]
    ELSE IF value[1] = "(" /\ value[Len(value)] = ")" THEN [kind |-> "raw", text |-> value]
    ELSE IF Len(value) = 1 /\ value[1] \in {"100", "1", "2"} THEN [kind |-> "int", text |-> value]
    ELSE IF Len(value) = 1 /\ value[1] \in {"true", "false"} THEN [kind |-> "bool", text |-> value]
    ELSE [kind |-> "str", text |-> value]

\* group 2 of the pattern at lexeme from: [last |-> index of its last lexeme], last = 0
\* when nothing matches.  Pos[XJ]\([^)]+\) is tried first, then [^,]+
ValueMatch(tokens, from) ==
    IF from > Len(tokens) THEN [last |-> 0]
    ELSE IF /\ tokens[from] \in {"PosX(", "PosJ("}
            /\ IndexOf(tokens, ")", from + 1) <= Len(tokens)
            /\ IndexOf(tokens, ")", from + 1) > from + 1
         THEN [last |-> IndexOf(tokens, ")", from + 1)]
    ELSE IF tokens[from] = "," THEN [last |-> 0]
    ELSE [last |-> IndexOf(tokens, ",", from) - 1]

\* re.findall(pattern, args_str) and the loop over its matches (lines 146-167),
\* from lexeme pos on
RECURSIVE FindAll(_, _, _)
FindAll(tokens, pos, args) ==
    IF pos > Len(tokens) THEN args
    ELSE IF tokens[pos] \in KeyTokens /\ ValueMatch(tokens, pos + 1).last # 0
    THEN LET last == ValueMatch(tokens, pos + 1).last
             key == KeyName(tokens[pos])
         IN  FindAll(tokens, last + 1,
                     [k \in DOMAIN args \cup {key} |->
                         IF k = key THEN TypedValue(SubSeq(tokens, pos + 1, last))
                         ELSE args[k]])
    ELSE FindAll(tokens, pos + 1, args)

\* TDLParser._parse_arguments
_parse_arguments(args_str) == FindAll(args_str, 1, NoArgs)

\* the values an argument is written with: a number, a name, a boolean, a pose
\* constructor and a tuple
ArgValues ==
    { <<"100">>, <<"Home">>, <<"true">>,
      <<"PosX(", "300", ",", "200", ")">>,
      <<"(", "1", ",", "2", ")">> }

\* the argument lists of one or two arguments with different keys
ArgLists ==
    { << [key |-> k, value |-> v] >> : k \in KeyTokens, v \in ArgValues } \cup
    UNION { { << [key |-> k, value |-> v], [key |-> l, value |-> w] >>
              : l \in KeyTokens \ {k}, v \in ArgValues, w \in ArgValues }
            : k \in KeyTokens }

\* the argument string of an argument list: key=value, key=value
ArgsText(list) ==
    IF Len(list) = 1 THEN <<list[1].key>> \o list[1].value
    ELSE <<list[1].key>> \o list[1].value \o <<",", list[2].key>> \o list[2].value

ArgsInit ==
    /\ request \in { [fn |-> "_parse_arguments", list |-> l, args_str |-> ArgsText(l)]
                     : l \in ArgLists }
    /\ check_collisions = TRUE
    /\ joint_limits = SymmetricLimits
    /\ obstacle_from = radians(120)
    /\ sim_joints = ZeroJoints
    /\ current_joints = <<>>
    /\ tdl_program = EmptyProgram
    /\ pc = "idle"
    /\ last_call = NoCall
    /\ NoPass
    /\ NoParse

\* TDLParser._parse_arguments is called on the argument string
ParseArguments ==
    /\ pc = "idle"
    /\ request.fn = "_parse_arguments"
    /\ last_call' = Answered(Returned(_parse_arguments(request.args_str), <<>>, sim_joints))
    /\ Answer

ArgsNext == ParseArguments

SpecArgs == ArgsInit /\ [][ArgsNext]_vars

\* C21: every argument of the list is in the result under its key with its whole
\* value, commas inside the parentheses of a pose constructor or of a tuple included.
C21_TopLevelCommas ==
    (pc = "returned" /\ request.fn = "_parse_arguments") =>
        /\ DOMAIN last_call.ret = { KeyName(request.list[i].key) : i \in DOMAIN request.list }
        /\ \A i \in DOMAIN request.list :
              last_call.ret[KeyName(request.list[i].key)].text = request.list[i].value

-----------------------------------------------------------------------------
(* Unit conversion (specification SpecUnits) *)

\* six-component bodies of pose literals, in millimetres and degrees
UnitBodies ==
    { <<a, b, c, d, "0", "0">>
      : a \in {"300", "90", "-90"}, b \in {"200", "0"}, c \in {"50", "0"},
        d \in {"0", "90", "-90"} }

UnitsInit ==
    /\ request \in { [fn |-> "convert_tdl_to_meters", pose |-> t]
                     : t \in { PosX(b) : b \in UnitBodies } \cup { PosJ(b) : b \in UnitBodies } }
    /\ check_collisions = TRUE
    /\ joint_limits = SymmetricLimits
    /\ obstacle_from = radians(120)
    /\ sim_joints = ZeroJoints
    /\ current_joints = <<>>
    /\ tdl_program = EmptyProgram
    /\ pc = "idle"
    /\ last_call = NoCall
    /\ NoPass
    /\ NoParse

\* convert_tdl_to_meters is called on what parse_tdl_pose made of the literal
ConvertPose ==
    /\ pc = "idle"
    /\ request.fn = "convert_tdl_to_meters"
    /\ last_call' = Answered(Returned(convert_tdl_to_meters(parse_tdl_pose(request.pose)),
                                      <<>>, sim_joints))
    /\ Answer

UnitsNext == ConvertPose

SpecUnits == UnitsInit /\ [][UnitsNext]_vars

\* the number a component of the literal stands for
Component(k) == FloatTable[request.pose.body[k]]

\* m (in 1/MetreScale metres) is mm millimetres divided by 1000
IsMetres(m, mm) == m * 1000 = mm * MetreScale

\* r (in micro-radians) is deg degrees times pi/180, rounded down to the grid
IsRadians(r, deg) == r * 180 <= deg * PiMicro /\ deg * PiMicro < (r + 1) * 180

\* C22: the position components of a Cartesian pose are divided by 1000 and its
\* orientation components multiplied by pi/180; every component of a joint pose is
\* multiplied by pi/180; PosX(300,200,50,0,0,0) becomes (0.3, 0.2, 0.05) with
\* orientation (0,0,0), PosJ(90,0,0,0,0,0) becomes pi/2 on joint 1 and 0 elsewhere.
C22_UnitConversion ==
    (pc = "returned" /\ request.fn = "convert_tdl_to_meters") =>
        /\ request.pose.head = "PosX(" =>
              /\ last_call.ret.type = "cartesian"
              /\ Len(last_call.ret.position) = 3 /\ Len(last_call.ret.orientation) = 3
              /\ \A k \in 1..3 : IsMetres(last_call.ret.position[k], Component(k))
              /\ \A k \in 1..3 : IsRadians(last_call.ret.orientation[k], Component(k + 3))
        /\ request.pose.head = "PosJ(" =>
              /\ last_call.ret.type = "joint"
              /\ Len(last_call.ret.joints) = 6
              /\ \A k \in 1..6 : IsRadians(last_call.ret.joints[k], Component(k))
        /\ request.pose = PosX(<<"300", "200", "50", "0", "0", "0">>) =>
              /\ last_call.ret.position = <<(3 * MetreScale) \div 10, (2 * MetreScale) \div 10,
                                            (5 * MetreScale) \div 100>>
              /\ last_call.ret.orientation = <<0, 0, 0>>
        /\ request.pose = PosJ(<<"90", "0", "0", "0", "0", "0">>) =>
              last_call.ret.joints = <<PiMicro \div 2, 0, 0, 0, 0, 0>>

\* a Cartesian pose with a quarter turn about x was converted
C22_Witness ==
    /\ pc = "returned"
    /\ request.fn = "convert_tdl_to_meters"
    /\ request.pose = PosX(<<"300", "200", "50", "90", "0", "0">>)
    /\ last_call.ret.orientation[1] = PiMicro \div 2
    /\ last_call.ret.position[1] = (3 * MetreScale) \div 10

-----------------------------------------------------------------------------
(* Commands of any type (specification SpecSpawn): the parser of SpecParse  *)
(* on texts of GOAL headers, closing braces and SPAWN lines                 *)

SpawnKinds == {"goal", "close", "spawn", "spawn_other"}

\* the texts of at most l lines of these kinds
SpawnTexts(l) ==
    UNION { { [i \in 1..n |-> Line(kinds[i], i)] : kinds \in [1..n -> SpawnKinds] }
            : n \in 0..l }

SpawnInit ==
    /\ text \in SpawnTexts(MaxLines)
    /\ line_no = 1
    /\ current_goal = 0
    /\ tdl_program = EmptyProgram
    /\ pc = "parsing"
    /\ check_collisions = TRUE
    /\ joint_limits = SymmetricLimits
    /\ obstacle_from = radians(120)
    /\ sim_joints = ZeroJoints
    /\ current_joints = <<>>
    /\ last_call = NoCall
    /\ request = NoRequest
    /\ NoPass

SpawnNext == ParseGoal \/ SkipBrace \/ ParseSpawn \/ DropSpawn \/ ReturnProgram

SpecSpawn == SpawnInit /\ [][SpawnNext]_vars

\* the commands of the SPAWN lines from line i up to the next GOAL header, in order
RECURSIVE SpawnedFrom(_)
SpawnedFrom(i) ==
    IF i > Len(text) \/ text[i].kind = "goal" THEN <<>>
    ELSE (IF text[i].kind = "spawn" THEN <<text[i].command>> ELSE <<>>) \o SpawnedFrom(i + 1)

\* the line of the g-th GOAL header
HeaderLine(g) ==
    CHOOSE i \in DOMAIN text :
        /\ text[i].kind = "goal"
        /\ Cardinality({j \in 1..i : text[j].kind = "goal"}) = g

-----------------------------------------------------------------------------
(* Moves whose target is of the other kind (specification SpecMoves):       *)
(* planning passes over Programs of MoveLinear commands with a joint pose   *)
(* and MoveJoint commands with a Cartesian pose, literal or named by a      *)
(* DEFINE, within and beyond the joint limits and the reach of the arm.     *)

MaxMoves == 2

MoveCommands ==
    { Cmd("MoveJoint",  [target_pose |-> PosJ(<<"90", "0", "0", "0", "0", "0">>)]),
      Cmd("MoveLinear", [target_pose |-> PosJ(<<"-90", "0", "0", "0", "0", "0">>)]),
      Cmd("MoveLinear", [target_pose |-> PosJ(<<"200", "0", "0", "0", "0", "0">>)]),
      Cmd("MoveLinear", [target_pose |-> Word("Home")]),
      Cmd("MoveJoint",  [target_pose |-> PosX(<<"300", "200", "50", "0", "0", "0">>)]),
      Cmd("MoveJoint",  [target_pose |-> PosX(<<"900", "0", "0", "0", "0", "0">>)]),
      Cmd("MoveJoint",  [target_pose |-> PosX(<<"abc", "0", "0", "0", "0", "0">>)]) }

\* every list of at most g lists holding at most c of these commands together
RECURSIVE MoveLists(_, _)
MoveLists(g, c) ==
    {<<>>} \cup
    (IF g = 0 THEN {}
     ELSE UNION { { <<cs>> \o rest : cs \in [1..n -> MoveCommands],
                                     rest \in MoveLists(g - 1, c - n) } : n \in 0..c })

MovePrograms(g, c) ==
    { [goals |-> [i \in 1..Len(cl) |-> [name |-> GoalNames[i], commands |-> cl[i]]],
       definitions |-> [n \in {"Home"} |-> PosJ(<<"0", "0", "0", "0", "0", "0">>)]]
      : cl \in MoveLists(g, c) }

MovesInit ==
    /\ tdl_program \in MovePrograms(MaxGoals, MaxMoves)
    /\ check_collisions = TRUE
    /\ joint_limits = SymmetricLimits
    /\ obstacle_from = radians(120)
    /\ sim_joints = ZeroJoints
    /\ current_joints = <<>>
    /\ motion_plan = EmptyPlan
    /\ trajectories = <<>>
    /\ gi = 1
    /\ ci = 1
    /\ pc = "idle"
    /\ last_call = NoCall
    /\ synth_log = <<>>
    /\ last_end = <<>>
    /\ attempts = <<>>
    /\ earlier = <<>>
    /\ request = NoRequest
    /\ text = <<>>
    /\ line_no = 0
    /\ current_goal = 0

SpecMoves == MovesInit /\ [][Next]_vars

\* the command the latest _plan_command call was about, and what its target resolves to
LastCommand == CommandAt(last_call.gi, last_call.ci)
LastPose == parse_tdl_pose(_resolve_pose(LastCommand.args.target_pose))

\* the latest call planned a command of this type whose resolved target is a pose
\* of this kind
LastWas(command_type, kind) ==
    /\ last_call.gi # 0
    /\ LastCommand.command_type = command_type
    /\ LastPose # None
    /\ LastPose # Raise
    /\ LastPose.type = kind

CallsOf(op) == {i \in DOMAIN last_call.calls : last_call.calls[i].op = op}

\* C29: a MoveLinear command whose resolved target is a joint pose makes no
\* forward- and no inverse-kinematics call and exactly one synthesizer call,
\* plan_joint_trajectory from the cursor; the trajectory it returns is the joint
\* interpolation from the cursor to the joint pose in radians, tagged command
\* MoveJoint and type joint.
C29_LinearToJointPose ==
    LastWas("MoveLinear", "joint") =>
        /\ CallsOf("fk") = {}
        /\ CallsOf("ik") = {}
        /\ Len(last_call.synth) = 1
        /\ last_call.synth[1].fn = "plan_joint_trajectory"
        /\ last_call.synth[1].start = last_call.cursor_before
        /\ last_call.ret # Raise
        /\ last_call.ret # None =>
              /\ last_call.ret.command = "MoveJoint"
              /\ last_call.ret.type = "joint"
              /\ last_call.ret.waypoints =
                     _interpolate_joint_path(last_call.cursor_before,
                                             convert_tdl_to_meters(LastPose).joints,
                                             NumWaypoints)

\* a MoveLinear command naming a DEFINE of a joint pose was planned from a cursor
\* away from zero and returned a trajectory
C29_Witness ==
    /\ LastWas("MoveLinear", "joint")
    /\ LastCommand.args.target_pose = Word("Home")
    /\ last_call.cursor_before # ZeroJoints
    /\ last_call.ret # None
    /\ last_call.ret.command = "MoveJoint"
    /\ current_joints = ZeroJoints

\* the Cartesian target of the latest command, converted, and what the provider's
\* inverse kinematics answers for it
LastTarget == convert_tdl_to_meters(LastPose)
LastSolution == solve_ik_from_euler(LastTarget.position, LastTarget.orientation)

\* C30: a MoveJoint command whose resolved target is a Cartesian pose makes
\* exactly one inverse-kinematics call, for that pose and seeded with the cursor.
\* If the call fails, no trajectory is synthesized, the command returns None, the
\* cursor stays where it was and the Goal is given up with an error; if not, the
\* one synthesizer call is plan_joint_trajectory from the cursor, and its
\* trajectory is the joint interpolation from the cursor to the solution.
C30_JointToCartesianPose ==
    LastWas("MoveJoint", "cartesian") =>
        /\ CallsOf("fk") = {}
        /\ Cardinality(CallsOf("ik")) = 1
        /\ \A i \in CallsOf("ik") :
              /\ last_call.calls[i].seed = last_call.cursor_before
              /\ last_call.calls[i].pos = LastTarget.position
              /\ last_call.calls[i].orn = LastTarget.orientation
        /\ IF LastSolution = None
           THEN /\ last_call.synth = <<>>
                /\ last_call.ret = None
                /\ current_joints = last_call.cursor_before
                /\ attempts[last_call.gi][last_call.ci] = "aborted"
                /\ Len(attempts[last_call.gi]) = last_call.ci
                /\ ErrorsNaming(tdl_program.goals[last_call.gi].name) # {}
                /\ RecordsNaming(tdl_program.goals[last_call.gi].name) = {}
           ELSE /\ Len(last_call.synth) = 1
                /\ last_call.synth[1].fn = "plan_joint_trajectory"
                /\ last_call.synth[1].start = last_call.cursor_before
                /\ last_call.ret # None =>
                      /\ last_call.ret.command = "MoveJoint"
                      /\ last_call.ret.waypoints =
                             _interpolate_joint_path(last_call.cursor_before,
                                                     LastSolution.joints, NumWaypoints)

\* after a MoveJoint to a joint pose moved the cursor from zero, a MoveJoint to a
\* Cartesian pose beyond the reach of the arm failed in its inverse-kinematics
\* call and its Goal was given up
C30_Witness ==
    /\ LastWas("MoveJoint", "cartesian")
    /\ LastSolution = None
    /\ last_call.cursor_before # ZeroJoints
    /\ current_joints = last_call.cursor_before
    /\ last_call.aborted
    /\ ~motion_plan.success

=============================================================================
